---- MODULE Spec2Model ----
(***************************************************************************)
(* Spotify <-> YouTube playlist sync: the reconciliation orchestrator of   *)
(* src/index.js (runSp2Yt, runYt2Sp, main), the per-playlist cache of      *)
(* src/util/cache.js and the two matchers / soft-duplicate detectors of    *)
(* src/clients/youtube.js and src/clients/spotify.js.                      *)
(*                                                                         *)
(* Text is modelled at word level: a string is a sequence of words, each   *)
(* word a lower-case TLA+ string.  Times are integers; 0 stands for a      *)
(* missing timestamp (null lastSync, missing addedAt).  Scores are exact   *)
(* integers in units of 1/SCALE.                                           *)
(***************************************************************************)
EXTENDS Integers, Sequences, FiniteSets, TLC

\* ------------------------------------------------------------------ bounds
\* invocations of the program (main) in one behaviour
MaxRuns == 3
\* edits of the playlists / the cache file made by the user between runs
MaxOps == 3
\* invocations and user edits together
MaxEvents == 5

\* --------------------------------------------------------- program constants
DEFAULT_DURATION_SLACK_SEC == 7
RECENT_SPOTIFY_LIMIT == 10
RECENT_YOUTUBE_LIMIT == 10
\* search pool: first 5, escalated once to 10
POOL_FIRST == 5
POOL_ESCALATED == 10
\* soft-duplicate thresholds: max(12 s, 4 % of the track), Jaccard >= 0.45
RELAXED_SLACK_MS == 12000
RELAXED_PERCENT == 4
JACCARD_MIN_PERCENT == 45
SHORT_VIDEO_MS == 60000
\* token length kept by tokens()
MIN_TOKEN_LEN == 3
RECENT_DAYS == 30
\* scores are kept in units of 1/SCALE, a multiple of every denominator used
SCALE == 16 * 3 * 125 * 7

\* ------------------------------------------------------------ small helpers
Min2(a, b) == IF a <= b THEN a ELSE b
Max2(a, b) == IF a >= b THEN a ELSE b
Abs(a) == IF a < 0 THEN -a ELSE a
Range(s) == {s[i] : i \in 1..Len(s)}
Reverse(s) == [i \in 1..Len(s) |-> s[Len(s) + 1 - i]]

\* a value computed once and named: With(e, LAMBDA x : body) is body with x = e
With(v, F(_)) == F(v)
With2(v, w, F(_, _)) == F(v, w)
With3(u, v, w, F(_, _, _)) == F(u, v, w)

RECURSIVE Flatten(_)
Flatten(ss) == IF ss = <<>> THEN <<>> ELSE Head(ss) \o Flatten(Tail(ss))

\* String.prototype.includes at word level: a occurs as a contiguous run in t
Includes(t, a) ==
    \E i \in 0..(Len(t) - Len(a)) : \A j \in 1..Len(a) : t[i + j] = a[j]

\* ------------------------------------------------------------ util/text.js
\* words that norm() deletes: the noise pattern (lyrics?|mv|hd|4k|remaster(ed)?)
\* and the characters that are neither letters, digits nor whitespace
NoiseWords == {"lyric", "lyrics", "mv", "hd", "4k", "remaster", "remastered"}
PunctWords == {"-", "&", ",", "(", ")", "[", "]"}
\* words of the vocabulary shorter than MIN_TOKEN_LEN characters
ShortWords == {"x", "y", "a", "an", "of", "to", "in", "on", "by", "ft", "vs", "u2"}
WordLen(w) == IF w \in {"x", "y", "a"} THEN 1 ELSE IF w \in ShortWords THEN 2 ELSE MIN_TOKEN_LEN

\* first index >= from of word w in s, or 0
RECURSIVE IndexFrom(_, _, _)
IndexFrom(s, w, from) ==
    IF from > Len(s) THEN 0 ELSE IF s[from] = w THEN from ELSE IndexFrom(s, w, from + 1)

\* /\s*\(official.+?\)|\s*\[official.+?\]/g : an opening bracket directly
\* followed by "official", up to the first closing bracket after at least
\* one more word
RECURSIVE DropOfficialGroups(_)
DropOfficialGroups(s) ==
    IF s = <<>> THEN <<>>
    ELSE LET close == IF Head(s) = "(" THEN ")" ELSE "]"
             j == IF Head(s) \in {"(", "["} /\ Len(s) >= 2 /\ s[2] = "official"
                  THEN IndexFrom(s, close, 4) ELSE 0
         IN  IF j # 0 THEN DropOfficialGroups(SubSeq(s, j + 1, Len(s)))
             ELSE <<Head(s)>> \o DropOfficialGroups(Tail(s))

\* /official video|official audio|lyrics?|mv|hd|4k|remaster(ed)?/g
RECURSIVE DropNoise(_)
DropNoise(s) ==
    IF s = <<>> THEN <<>>
    ELSE IF Len(s) >= 2 /\ s[1] = "official" /\ s[2] \in {"video", "audio"}
         THEN DropNoise(SubSeq(s, 3, Len(s)))
    ELSE IF Head(s) \in NoiseWords THEN DropNoise(Tail(s))
    ELSE <<Head(s)>> \o DropNoise(Tail(s))

\* norm(): lower case (the words are), the two deletions above, then every
\* character that is no letter, digit or whitespace, then whitespace collapsed
norm(s) == SelectSeq(DropNoise(DropOfficialGroups(s)), LAMBDA w : w \notin PunctWords)

STOPWORDS == {"the", "a", "an", "and", "of", "to", "in", "on", "for", "with", "by",
              "feat", "ft", "vs", "x", "remix", "edit"}

tokens(s) == SelectSeq(norm(s), LAMBDA t : WordLen(t) >= MIN_TOKEN_LEN /\ t \notin STOPWORDS)

TokenSet(s) == Range(tokens(s))

\* a containment ratio instead: the intersection over the tokens of a alone
jaccardTitleOverFirst(a, b) ==
    With2(TokenSet(a), TokenSet(b), LAMBDA A, B :
        IF A = {} /\ B = {} THEN <<1, 1>>
        ELSE IF A # {} THEN <<Cardinality(A \cap B), Cardinality(A)>> ELSE <<0, 1>>)

\* jaccardTitle as the pair <<inter, uni>>; both sets empty is <<1, 1>> (the
\* value 1), an empty union otherwise is <<0, 1>> (the value 0)
jaccardTitle(a, b) ==
    With2(TokenSet(a), TokenSet(b), LAMBDA A, B :
        LET inter == Cardinality(A \cap B)
            uni == Cardinality(A) + Cardinality(B) - inter
        IN  IF A = {} /\ B = {} THEN <<1, 1>>
            ELSE IF uni # 0 THEN <<inter, uni>> ELSE <<0, 1>>)

\* a Jaccard value j compared with a percentage
JaccardBelow(j, percent) == j[1] * 100 < percent * j[2]
\* a Jaccard value times weight/10, in units of 1/SCALE
JaccardTimes(j, weightTenths) == (j[1] * weightTenths * (SCALE \div 10)) \div j[2]

\* the number of letters and digits of a normalised text
RECURSIVE Letters(_)
Letters(s) == IF s = <<>> THEN 0 ELSE WordLen(Head(s)) + Letters(Tail(s))

\* hasUsableTokens(...parts), joined being the parts joined with spaces
hasUsableTokens(joined) ==
    IF joined = <<>> THEN FALSE
    ELSE IF tokens(joined) # <<>> THEN TRUE
    ELSE Letters(norm(joined)) >= 2

\* ------------------------------------------------------------- the catalogs
\* Spotify tracks and YouTube videos the playlists can hold.  s1 and s2 are two
\* releases of one song, s3 a longer title of the same artist; v1..v3 are
\* uploads of them.  The filler items match nothing.
TrackIds == {"s1", "s2", "s3"}
VideoIds == {"v1", "v2", "v3"}
FillTracks == <<"sf01", "sf02", "sf03", "sf04", "sf05", "sf06", "sf07", "sf08", "sf09", "sf10">>
FillVideos == <<"yf01", "yf02", "yf03", "yf04", "yf05", "yf06", "yf07", "yf08", "yf09", "yf10">>
FillVideos2 == <<"yg01", "yg02", "yg03", "yg04", "yg05", "yg06", "yg07", "yg08", "yg09", "yg10", "yg11">>
AllTracks == TrackIds \cup Range(FillTracks)
AllVideos == VideoIds \cup Range(FillVideos) \cup Range(FillVideos2)
NoId == "none"

\* canonicalFromPlaylistItem: { id, title, artists, durationMs } of a track
TrackInfo(id) ==
    CASE id = "s1" -> [title |-> <<"alpha">>, artists |-> << <<"ann">> >>, durationMs |-> 200000, popularity |-> 50]
      [] id = "s2" -> [title |-> <<"alpha">>, artists |-> << <<"ann">> >>, durationMs |-> 200000, popularity |-> 50]
      [] id = "s3" -> [title |-> <<"alpha", "beta", "gamma">>, artists |-> << <<"ann">> >>, durationMs |-> 200000, popularity |-> 40]
      [] OTHER -> [title |-> <<"zed">>, artists |-> << <<"zoe">> >>, durationMs |-> 100000, popularity |-> 0]

\* the fields of a video: those of the playlist item and those videos.list adds.
\* viewsLog10 is log10(viewCount + 1); recent tells whether publishedAt is less
\* than 30 days before the match attempt (Date.now() in popularityScore).
VideoInfo(id) ==
    CASE id = "v1" -> [title |-> <<"ann", "-", "alpha", "beta", "gamma">>, channelTitle |-> <<"ann", "-", "topic">>,
                       description |-> <<>>, categoryId |-> "10", durationMs |-> 200000, viewsLog10 |-> 3, recent |-> FALSE]
      [] id = "v2" -> [title |-> <<"ann", "-", "alpha">>, channelTitle |-> <<"ann", "vids">>,
                       description |-> <<>>, categoryId |-> "10", durationMs |-> 206000, viewsLog10 |-> 3, recent |-> FALSE]
      [] id = "v3" -> [title |-> <<"ann", "-", "alpha">>, channelTitle |-> <<"ann", "-", "topic">>,
                       description |-> <<>>, categoryId |-> "10", durationMs |-> 204000, viewsLog10 |-> 3, recent |-> FALSE]
      [] OTHER -> [title |-> <<"yon">>, channelTitle |-> <<"yves">>,
                   description |-> <<>>, categoryId |-> "22", durationMs |-> 400000, viewsLog10 |-> 0, recent |-> FALSE]

\* youtube.search.list({ q, maxResults: 10 }): the ranked video IDs for a query
YouTubeSearch(q) ==
    CASE q = <<"ann", "alpha">> -> <<"v1", "v2", "v3">>
      [] q = <<"ann", "alpha", "beta", "gamma">> -> <<"v1">>
      [] OTHER -> <<>>

\* sp.searchTracks(q, { limit: 10 }): the ranked track IDs for a query
SpotifySearch(q) ==
    CASE q = <<"ann", "alpha">> -> <<"s1", "s2">>
      [] q = <<"alpha">> -> <<"s1", "s2", "s3">>
      [] q = <<"ann", "alpha", "beta", "gamma">> -> <<"s3", "s1">>
      [] q = <<"alpha", "beta", "gamma">> -> <<"s3">>
      [] OTHER -> <<>>

\* ------------------------------------------------------ clients/youtube.js
\* a search candidate (toCandidate) and a playlist item of YouTube
YtCandidate(id) == [id |-> id] @@ VideoInfo(id)

primaryOf(spItem) == IF Len(spItem.artists) > 0 THEN spItem.artists[1] ELSE <<>>

hasAllTitleTokens(spotifyTitle, ytTitle) ==
    With(TokenSet(spotifyTitle), LAMBDA need : need = {} \/ need \subseteq TokenSet(ytTitle))

isShortVideo(trackMs, candMs) ==
    trackMs # 0 /\ trackMs > SHORT_VIDEO_MS /\ candMs # 0 /\ candMs < SHORT_VIDEO_MS

VARIANT_TOKENS == {<<"live">>, <<"acoustic">>, <<"remix">>, <<"remaster">>, <<"clean">>,
                   <<"explicit">>, <<"radio", "edit">>}
DISALLOWED_TOKENS == {<<"cover">>, <<"karaoke">>, <<"sped", "up">>, <<"speed", "up">>, <<"nightcore">>,
                      <<"slowed">>, <<"8d">>, <<"8d", "audio">>, <<"loop">>, <<"extended">>,
                      <<"reaction">>, <<"compilation">>, <<"mix">>, <<"full", "album">>,
                      <<"tribute">>, <<"fanmade">>, <<"edit">>, <<"reverb">>, <<"bass", "boosted">>}

violatesVersionRules(spotifyTitle, ytTitle, ytDesc) ==
    With2(norm(spotifyTitle), norm(ytTitle) \o norm(ytDesc), LAMBDA st, yt :
        \/ \E v \in VARIANT_TOKENS : Includes(yt, v) /\ ~Includes(st, v)
        \/ \E d \in DISALLOWED_TOKENS : Includes(yt, d) /\ ~Includes(st, d)
        \/ Includes(yt, <<"lyric">>) /\ ~Includes(st, <<"lyric">>))

\* the channel is compared with `${a} - topic` after norm() has removed the dash
artistAlignment(primaryArtist, ytTitle, ytChannel) ==
    With3(norm(primaryArtist), norm(ytTitle), norm(ytChannel), LAMBDA a, t, c :
        \/ Includes(t, a)
        \/ c = a
        \/ c = a \o <<"-", "topic">>
        \/ Includes(c, <<"vevo">>)
        \/ Includes(c, a))

\* trustScore in tenths: 3.0, 2.6, 2.6, 2.2, 1.0
trustScore(primaryArtist, ytChannel) ==
    With2(norm(primaryArtist), norm(ytChannel), LAMBDA a, c :
        IF c = a THEN 30
        ELSE IF c = a \o <<"-", "topic">> THEN 26
        ELSE IF Includes(c, <<"vevo">>) THEN 26
        ELSE IF Includes(c, a) THEN 22
        ELSE 10)

EndsWith(c, suffix) ==
    Len(c) >= Len(suffix) /\ SubSeq(c, Len(c) - Len(suffix) + 1, Len(c)) = suffix

\* contentTypeScore in tenths
contentTypeScore(ytTitle, ytChannel) ==
    With2(norm(ytTitle), norm(ytChannel), LAMBDA t, c :
        (IF Includes(t, <<"official", "audio">>) THEN 4 ELSE 0)
        + (IF EndsWith(c, <<"-", "topic">>) THEN 4 ELSE 0)
        + (IF Includes(t, <<"official", "video">>) THEN 2 ELSE 0))

\* "days < 30" in popularityScore: whether a video published on day
\* publishedAt (0 = no date) is less than 30 days old on day nowDay (Date.now())
isRecent(nowDay, publishedAt) == publishedAt # 0 /\ nowDay - publishedAt < RECENT_DAYS

\* popularityScore = log10(views + 1) / 8, halved when published < 30 days ago
popularityScore(viewsLog10, recent) ==
    LET s8 == viewsLog10 * (SCALE \div 8)
    IN  IF recent THEN s8 \div 2 ELSE s8

\* durationCloseness in units of 1/SCALE: 0 when a duration is missing or the
\* difference exceeds the slack, else 1 - delta / slack
durationCloseness(trackMs, candMs, slackSec) ==
    LET slack == (IF slackSec = 0 THEN 7 ELSE slackSec) * 1000
        delta == Abs(trackMs - candMs)
    IN  IF trackMs = 0 \/ candMs = 0 THEN 0
        ELSE IF delta > slack THEN 0
        ELSE SCALE - (delta * SCALE) \div slack

categoryBonus(categoryId) == IF categoryId = "10" THEN 3 ELSE 0

\* the duration test of passesHardFilters (youtube.js 107)
ytDurationOk(trackMs, candMs, slackSec) == durationCloseness(trackMs, candMs, slackSec) # 0

passesHardFilters(spItem, cand, slackSec) ==
    /\ ytDurationOk(spItem.durationMs, cand.durationMs, slackSec)
    /\ ~isShortVideo(spItem.durationMs, cand.durationMs)
    /\ ~violatesVersionRules(spItem.title, cand.title, cand.description)
    /\ artistAlignment(primaryOf(spItem), cand.title, cand.channelTitle)
    /\ hasAllTitleTokens(spItem.title, cand.title)

scoreCandidate(spItem, cand, slackSec) ==
    LET primary == primaryOf(spItem)
        sTrust == trustScore(primary, cand.channelTitle)
        sTitle == jaccardTitle(spItem.title, cand.title)
        sArtist == IF artistAlignment(primary, cand.title, cand.channelTitle) THEN 1 ELSE 0
        sDur == durationCloseness(spItem.durationMs, cand.durationMs, slackSec)
        sType == contentTypeScore(cand.title, cand.channelTitle)
        sPop == popularityScore(cand.viewsLog10, cand.recent)
        sCat == categoryBonus(cand.categoryId)
        tenth == SCALE \div 10
    IN  (sTrust * 2 * tenth) + JaccardTimes(sTitle, 16) + (sArtist * SCALE)
        + (sDur * 14) \div 10 + (sType * 6 * tenth) \div 10 + (sPop * 4) \div 10
        + sCat * tenth

\* mutation of BestFrom: an equal score replaces the best so far
RECURSIVE BestFromLast(_, _, _, _, _)
BestFromLast(pool, scores, i, best, bestScore) ==
    IF i > Len(pool) THEN best
    ELSE IF best = NoId \/ scores[i] >= bestScore
         THEN BestFromLast(pool, scores, i + 1, pool[i].id, scores[i])
         ELSE BestFromLast(pool, scores, i + 1, best, bestScore)

\* the loop "if (!best || s > best.score) best = ..." over pool, scores[i]
\* being the score of pool[i]: the ID of the first element with the greatest
\* score, NoId for an empty pool
RECURSIVE BestFrom(_, _, _, _, _)
BestFrom(pool, scores, i, best, bestScore) ==
    IF i > Len(pool) THEN best
    ELSE IF best = NoId \/ scores[i] > bestScore
         THEN BestFrom(pool, scores, i + 1, pool[i].id, scores[i])
         ELSE BestFrom(pool, scores, i + 1, best, bestScore)
BestOf(pool, scores) == BestFrom(pool, scores, 1, NoId, 0)

FirstN(s, n) == SubSeq(s, 1, Min2(n, Len(s)))

\* all.slice(0, n).filter(...), passed[i] telling whether all[i] passes
Passing(all, passed, n) ==
    LET idx == SelectSeq([i \in 1..Min2(n, Len(all)) |-> i], LAMBDA i : passed[i])
    IN  [k \in 1..Len(idx) |-> all[idx[k]]]

\* the result of a matcher from its candidates, the pool of the first pass,
\* the final pool and the chosen ID
MatchResult(all, pool5, pool, best, noResults) ==
    LET escalated == pool5 = <<>>
        inspected == IF escalated THEN Min2(POOL_ESCALATED, Len(all)) ELSE Min2(POOL_FIRST, Len(all))
    IN  IF all = <<>>
        THEN [best |-> NoId, reason |-> noResults, inspected |-> 0, escalated |-> FALSE]
        ELSE IF pool = <<>>
        THEN [best |-> NoId, reason |-> "no_candidate_passed_filters", inspected |-> inspected,
              escalated |-> escalated]
        ELSE [best |-> best, reason |-> "ok", inspected |-> inspected, escalated |-> escalated]

\* bestScore of the loop over pool: <<>> when the pool is empty (no score is
\* returned), else the greatest score
BestScoreOf(scores) ==
    IF scores = <<>> THEN <<>>
    ELSE << CHOOSE m \in Range(scores) : \A x \in Range(scores) : x <= m >>

\* mutation of PoolsOf: no second pass over the first POOL_ESCALATED candidates
PoolsOfFirstOnly(all, passed) ==
    With(Passing(all, passed, POOL_FIRST), LAMBDA pool5 : [pool5 |-> pool5, pool |-> pool5])

\* the pools of a matcher: of the first pass (pool5) and the final one,
\* passed[i] telling whether all[i] passes the hard filters
PoolsOf(all, passed) ==
    With(Passing(all, passed, POOL_FIRST), LAMBDA pool5 :
        [pool5 |-> pool5,
         pool |-> IF pool5 = <<>> THEN Passing(all, passed, POOL_ESCALATED) ELSE pool5])

\* findBestYouTubeForSpotifyTrack from the candidates the search and
\* videos.list returned (youtube.js 198-215): [best, reason, inspected, escalated]
YouTubeMatch(spItem, all, slackSec) ==
    With(PoolsOf(all, [i \in 1..Len(all) |-> passesHardFilters(spItem, all[i], slackSec)]), LAMBDA p :
        MatchResult(all, p.pool5, p.pool,
                    BestOf(p.pool, [i \in 1..Len(p.pool) |-> scoreCandidate(spItem, p.pool[i], slackSec)]),
                    "no_search_results"))

\* the score field of the result of findBestYouTubeForSpotifyTrack
YouTubeMatchScore(spItem, all, slackSec) ==
    With(PoolsOf(all, [i \in 1..Len(all) |-> passesHardFilters(spItem, all[i], slackSec)]), LAMBDA p :
        BestScoreOf([i \in 1..Len(p.pool) |-> scoreCandidate(spItem, p.pool[i], slackSec)]))

\* findBestYouTubeForSpotifyTrack: [best, reason, inspected, escalated]
findBestYouTubeForSpotifyTrack(spItem, slackSec) ==
    With(YouTubeSearch(primaryOf(spItem) \o spItem.title), LAMBDA order :
        YouTubeMatch(spItem, [i \in 1..Len(order) |-> YtCandidate(order[i])], slackSec))

relaxedDurationOk(trackMs, candMs) ==
    /\ trackMs # 0
    /\ candMs # 0
    /\ Abs(trackMs - candMs) <= Max2(RELAXED_SLACK_MS, (RELAXED_PERCENT * trackMs) \div 100)

softArtistAlign(primaryArtist, ytTitle, ytChannel) ==
    With(norm(primaryArtist), LAMBDA a : Includes(norm(ytTitle), a) \/ Includes(norm(ytChannel), a))

\* findSoftDupeInPlaylist: the ID of the first best-scoring relaxed match among
\* ytPlaylistItems (a sequence of playlist entries), or NoId
findSoftDupeInPlaylist(spItem, ytPlaylistItems) ==
    With([i \in 1..Len(ytPlaylistItems) |-> VideoInfo(ytPlaylistItems[i].id)], LAMBDA vs :
    With([i \in 1..Len(vs) |-> jaccardTitle(spItem.title, vs[i].title)], LAMBDA sTitle :
    With([i \in 1..Len(vs) |->
            /\ relaxedDurationOk(spItem.durationMs, vs[i].durationMs)
            /\ softArtistAlign(primaryOf(spItem), vs[i].title, vs[i].channelTitle)
            /\ ~JaccardBelow(sTitle[i], JACCARD_MIN_PERCENT)], LAMBDA ok :
    With([i \in 1..Len(vs) |->
            trustScore(primaryOf(spItem), vs[i].channelTitle) * 2 * (SCALE \div 10)
            + JaccardTimes(sTitle[i], 10)], LAMBDA score :
        LET idx == SelectSeq([i \in 1..Len(vs) |-> i], LAMBDA i : ok[i])
        IN  BestOf([k \in 1..Len(idx) |-> ytPlaylistItems[idx[k]]],
                   [k \in 1..Len(idx) |-> score[idx[k]]])))))

\* ------------------------------------------------------ clients/spotify.js
durationClose(trackMs, candMs, slackSec) ==
    /\ trackMs # 0
    /\ candMs # 0
    /\ Abs(trackMs - candMs) <= slackSec * 1000

\* "Artist - Topic" or "Artist VEVO"; <<>> stands for null
extractArtistFromChannel(channelTitle) ==
    LET n == Len(channelTitle)
    IN  IF n >= 2 /\ channelTitle[n - 1] = "-" /\ channelTitle[n] = "topic"
        THEN SubSeq(channelTitle, 1, n - 2)
        ELSE IF "vevo" \in Range(channelTitle)
        THEN SelectSeq(channelTitle, LAMBDA w : w # "vevo")
        ELSE <<>>

\* the tests for "&" and "," read the text after norm() has removed both
hasArtistMarkers(s) ==
    With(norm(s), LAMBDA x :
        \/ \E w \in Range(x) : w \in {"feat", "ft", "with", "con", "x", "y"}
        \/ Includes(x, <<"&">>)
        \/ Includes(x, <<",">>))

\* smartSplitArtistTitle: [titleCore, artistSide, orientation]; an artistSide
\* of <<>> stands for null / the empty string
smartSplitArtistTitle(ytTitle, channelTitle) ==
    LET raw == ytTitle
        d == IndexFrom(raw, "-", 1)
        left == SubSeq(raw, 1, d - 1)
        right == SubSeq(raw, d + 1, Len(raw))
        leftArtist == [titleCore |-> right, artistSide |-> left, orientation |-> "left-artist"]
        rightArtist == [titleCore |-> left, artistSide |-> right, orientation |-> "right-artist"]
    IN
    With(extractArtistFromChannel(channelTitle), LAMBDA channelArtist :
    With3(IF channelArtist # <<>> THEN TokenSet(channelArtist) ELSE {}, TokenSet(left), TokenSet(right),
          LAMBDA chanTokens, leftTokens, rightTokens :
    With2(hasArtistMarkers(left), hasArtistMarkers(right), LAMBDA leftLooksArtist, rightLooksArtist :
        LET overlapLeft == chanTokens \cap leftTokens # {}
            overlapRight == chanTokens \cap rightTokens # {}
        IN  IF d = 0 THEN [titleCore |-> raw, artistSide |-> <<>>, orientation |-> "none"]
            ELSE IF overlapLeft /\ ~overlapRight THEN leftArtist
            ELSE IF overlapRight /\ ~overlapLeft THEN rightArtist
            ELSE IF leftLooksArtist /\ ~rightLooksArtist THEN leftArtist
            ELSE IF rightLooksArtist /\ ~leftLooksArtist THEN rightArtist
            ELSE IF Cardinality(leftTokens) < Cardinality(rightTokens) THEN leftArtist
            ELSE IF Cardinality(rightTokens) < Cardinality(leftTokens) THEN rightArtist
            ELSE leftArtist)))

\* mutation of deriveArtistGuess: a title-derived guess is trusted too
deriveArtistGuessTrusting(ytTitle, channelTitle) ==
    With(extractArtistFromChannel(channelTitle), LAMBDA ch :
        IF ch # <<>> /\ ch # <<"various", "artists">>
        THEN [artistGuess |-> ch, trusted |-> TRUE]
        ELSE [artistGuess |-> smartSplitArtistTitle(ytTitle, channelTitle).artistSide,
              trusted |-> smartSplitArtistTitle(ytTitle, channelTitle).artistSide # <<>>])

deriveArtistGuess(ytTitle, channelTitle) ==
    With(extractArtistFromChannel(channelTitle), LAMBDA ch :
        IF ch # <<>> /\ ch # <<"various", "artists">>
        THEN [artistGuess |-> ch, trusted |-> TRUE]
        ELSE [artistGuess |-> smartSplitArtistTitle(ytTitle, channelTitle).artistSide,
              trusted |-> FALSE])

\* versionTokens reads norm(s), from which "lyric(s)" and "remaster(ed)" are gone
versionTokens(s) ==
    With(Range(norm(s)), LAMBDA x :
        [hasLive |-> "live" \in x,
         hasRemix |-> "remix" \in x,
         hasAcoustic |-> "acoustic" \in x,
         hasLyric |-> "lyric" \in x \/ "lyrics" \in x,
         hasRemaster |-> "remaster" \in x \/ "remastered" \in x])

titleCoverageOk(ytCoreTitle, spName) == TokenSet(ytCoreTitle) \subseteq TokenSet(spName)

\* the tokens of a name, each as a one-word text; the whole normalised name
\* when no token survives (e.g. "U2")
artistTokenSet(name) ==
    With(TokenSet(name), LAMBDA toks : IF toks = {} THEN {norm(name)} ELSE {<<t>> : t \in toks})

artistAligned(artistGuess, artists) ==
    \/ artistGuess = <<>>
    \/ With(artistTokenSet(artistGuess), LAMBDA g :
            \E i \in 1..Len(artists) : g \cap artistTokenSet(artists[i]) # {})

isMusicVideoName(name) ==
    With(norm(name), LAMBDA x :
        \/ Includes(x, <<"music", "video">>) \/ Includes(x, <<"musicvideo">>)
        \/ Includes(x, <<"official", "video">>) \/ Includes(x, <<"officialvideo">>)
        \/ Includes(x, <<"video", "edit">>))

isExactTitleMatch(coreTitle, spName) ==
    With2(TokenSet(coreTitle), TokenSet(spName), LAMBDA A, B : A # {} /\ B # {} /\ A = B)

\* the title core both Spotify-side functions use: split.titleCore || title
TitleCoreOf(ytItem) ==
    With(smartSplitArtistTitle(ytItem.title, ytItem.channelTitle).titleCore, LAMBDA core :
        IF core # <<>> THEN core ELSE ytItem.title)

\* findSoftDupeInSpotify over the canonical items its of the playlist: the ID
\* of the first best-scoring relaxed match, or NoId
SoftDupeAmong(ytItem, spPlaylistItems, its) ==
    With2(deriveArtistGuess(ytItem.title, ytItem.channelTitle), TitleCoreOf(ytItem), LAMBDA g, ytCore :
    With2([i \in 1..Len(its) |-> isMusicVideoName(its[i].title)],
          [i \in 1..Len(its) |-> jaccardTitle(ytCore, its[i].title)], LAMBDA mvTitle, sim :
    With([i \in 1..Len(its) |->
            /\ relaxedDurationOk(its[i].durationMs, ytItem.durationMs)
            /\ (IF g.trusted
                THEN (IF mvTitle[i] THEN TRUE ELSE artistAligned(g.artistGuess, its[i].artists))
                ELSE TRUE)
            /\ ~JaccardBelow(sim[i], JACCARD_MIN_PERCENT)], LAMBDA ok :
        LET score(i) == SCALE + JaccardTimes(sim[i], 10) + (IF mvTitle[i] THEN SCALE \div 20 ELSE 0)
            idx == SelectSeq([i \in 1..Len(its) |-> i], LAMBDA i : ok[i])
        IN  BestOf([k \in 1..Len(idx) |-> spPlaylistItems[idx[k]]],
                   [k \in 1..Len(idx) |-> score(idx[k])]))))

\* findSoftDupeInSpotify: spPlaylistItems is a sequence of playlist entries
findSoftDupeInSpotify(ytItem, spPlaylistItems) ==
    SoftDupeAmong(ytItem, spPlaylistItems,
                  [i \in 1..Len(spPlaylistItems) |-> TrackInfo(spPlaylistItems[i].id)])

\* the search queries of findBestSpotifyForYouTubeVideo, in order
SpotifyQueries(ytItem) ==
    With3(smartSplitArtistTitle(ytItem.title, ytItem.channelTitle), TitleCoreOf(ytItem),
          deriveArtistGuess(ytItem.title, ytItem.channelTitle), LAMBDA split, titleCore, g :
        (IF g.trusted /\ g.artistGuess # <<>> THEN << g.artistGuess \o titleCore >> ELSE <<>>)
        \o (IF ~g.trusted /\ split.artistSide # <<>> THEN << split.artistSide \o titleCore >> ELSE <<>>)
        \o << titleCore >>)

\* s without the later occurrences of an element
RECURSIVE Dedupe(_, _)
Dedupe(s, seen) ==
    IF s = <<>> THEN <<>>
    ELSE IF Head(s) \in seen THEN Dedupe(Tail(s), seen)
    ELSE <<Head(s)>> \o Dedupe(Tail(s), seen \cup {Head(s)})

\* the candidates of the query loop (spotify.js 201-212): the results of the
\* queries in query order, an ID that was seen before left out
Merged(hits) == Dedupe(Flatten(hits), {})

SpCandidate(id) == [id |-> id] @@ TrackInfo(id)

\* the hard filter of one search result t (spotify.js 232-253)
spHardFilter(ytItem, t, titleCore, g, slackSec) ==
    With2(versionTokens(ytItem.title), versionTokens(t.title), LAMBDA ytTokens, sTokens :
        LET versionMismatch ==
                \/ ytTokens.hasLive /\ ~sTokens.hasLive
                \/ ytTokens.hasRemix /\ ~sTokens.hasRemix
                \/ ytTokens.hasAcoustic /\ ~sTokens.hasAcoustic
                \/ ytTokens.hasLyric /\ ~sTokens.hasLyric
                \/ ytTokens.hasRemaster /\ ~sTokens.hasRemaster
        IN  /\ durationClose(ytItem.durationMs, t.durationMs, slackSec)
            /\ ~versionMismatch
            /\ ~(g.trusted /\ ~isMusicVideoName(t.title) /\ ~artistAligned(g.artistGuess, t.artists))
            /\ titleCoverageOk(titleCore, t.title))

spDurScore(ytItem, t, slackSec) ==
    SCALE - (Abs(t.durationMs - ytItem.durationMs) * SCALE) \div (slackSec * 1000)

\* the score of one candidate of the pool (spotify.js 255-263)
spScore(ytItem, t, titleCore, g, slackSec) ==
    With(isMusicVideoName(t.title), LAMBDA mv :
        JaccardTimes(jaccardTitle(titleCore, t.title), 16)
        + (spDurScore(ytItem, t, slackSec) * 16) \div 10
        + (IF g.trusted /\ ~mv /\ artistAligned(g.artistGuess, t.artists) THEN SCALE ELSE 0)
        + (t.popularity * 6 * SCALE) \div 1000
        + (IF mv THEN (3 * SCALE) \div 10 ELSE 0))

\* the tie-break among exact non-MV matches (spotify.js 285-289)
spTie(ytItem, t, slackSec) == spDurScore(ytItem, t, slackSec) + (t.popularity * SCALE) \div 200

\* mutation of ExactNonMV: no exact-match override
ExactNonMVNone(pool, titleCore) == <<>>

\* the exact non-MV title matches of a pool (spotify.js 282)
ExactNonMV(pool, titleCore) ==
    SelectSeq(pool, LAMBDA t : isExactTitleMatch(titleCore, t.title) /\ ~isMusicVideoName(t.title))

\* findBestSpotifyForYouTubeVideo from the candidates the searches returned
\* (spotify.js 230-318): [best, reason, inspected, escalated]
SpotifyMatch(ytItem, all, slackSec) ==
    With2(TitleCoreOf(ytItem), deriveArtistGuess(ytItem.title, ytItem.channelTitle), LAMBDA titleCore, g :
    With(PoolsOf(all, [i \in 1..Len(all) |-> spHardFilter(ytItem, all[i], titleCore, g, slackSec)]), LAMBDA p :
    With(ExactNonMV(p.pool, titleCore), LAMBDA exactNonMV :
        MatchResult(all, p.pool5, p.pool,
                    IF exactNonMV # <<>>
                    THEN BestOf(exactNonMV, [i \in 1..Len(exactNonMV) |-> spTie(ytItem, exactNonMV[i], slackSec)])
                    ELSE BestOf(p.pool, [i \in 1..Len(p.pool) |-> spScore(ytItem, p.pool[i], titleCore, g, slackSec)]),
                    "no_spotify_results"))))

\* the score field of the result of findBestSpotifyForYouTubeVideo
SpotifyMatchScore(ytItem, all, slackSec) ==
    With2(TitleCoreOf(ytItem), deriveArtistGuess(ytItem.title, ytItem.channelTitle), LAMBDA titleCore, g :
    With(PoolsOf(all, [i \in 1..Len(all) |-> spHardFilter(ytItem, all[i], titleCore, g, slackSec)]), LAMBDA p :
    With(ExactNonMV(p.pool, titleCore), LAMBDA exactNonMV :
        IF exactNonMV # <<>>
        THEN BestScoreOf([i \in 1..Len(exactNonMV) |-> spTie(ytItem, exactNonMV[i], slackSec)])
        ELSE BestScoreOf([i \in 1..Len(p.pool) |-> spScore(ytItem, p.pool[i], titleCore, g, slackSec)]))))

\* findBestSpotifyForYouTubeVideo: [best, reason, inspected, escalated]
findBestSpotifyForYouTubeVideo(ytItem, slackSec) ==
    With(SpotifyQueries(ytItem), LAMBDA queries :
    With(Merged([i \in 1..Len(queries) |-> SpotifySearch(queries[i])]), LAMBDA ids :
        SpotifyMatch(ytItem, [i \in 1..Len(ids) |-> SpCandidate(ids[i])], slackSec)))

\* ------------------------------------------------------------ util/cache.js
\* The cache of a pair: lastSync (0 = null), seenTrackIds (a set: only
\* membership is read) and map, kept as the sequence of its entries
\* <<spotifyTrackId, youtubeVideoId>> in the key order of the JS object.
EmptyCache == [lastSync |-> 0, seenTrackIds |-> {}, map |-> <<>>]

MapKeys(m) == {m[i][1] : i \in 1..Len(m)}
MapGet(m, k) == IF \E i \in 1..Len(m) : m[i][1] = k
                THEN m[CHOOSE i \in 1..Len(m) : m[i][1] = k][2]
                ELSE NoId
\* map[k] = v : an existing key keeps its place, a new key goes last
MapSet(m, k, v) == IF k \in MapKeys(m)
                   THEN [i \in 1..Len(m) |-> IF m[i][1] = k THEN <<k, v>> ELSE m[i]]
                   ELSE Append(m, <<k, v>>)
MapDelete(m, k) == SelectSeq(m, LAMBDA e : e[1] # k)

\* ---------------------------------------------------------------- index.js
MODES == {"both", "sp2yt", "yt2sp"}
\* CONFIG.pairs: pair 1 is the pair the user edits, pair 2 a second pair
PairIds == <<1, 2>>
NPairs == Len(PairIds)

\* mutation of isAfter: "not before" instead of "strictly after"
isAfterOrEqual(a, b) == IF a = 0 THEN FALSE ELSE IF b = 0 THEN TRUE ELSE a >= b

isAfter(a, b) == IF a = 0 THEN FALSE ELSE IF b = 0 THEN TRUE ELSE a > b

\* Array.prototype.sort with (a, b) => tb - ta : stable, latest addedAt first
RECURSIVE InsertDesc(_, _)
InsertDesc(sorted, e) ==
    IF sorted = <<>> THEN <<e>>
    ELSE IF Head(sorted).addedAt >= e.addedAt THEN <<Head(sorted)>> \o InsertDesc(Tail(sorted), e)
    ELSE <<e>> \o sorted
RECURSIVE sortByAddedAtDesc(_)
sortByAddedAtDesc(items) ==
    IF items = <<>> THEN <<>>
    ELSE InsertDesc(sortByAddedAtDesc(SubSeq(items, 1, Len(items) - 1)), items[Len(items)])

IdsOf(items) == {items[i].id : i \in 1..Len(items)}

VARIABLES
    now,             \* the clock (Date / the services' added_at)
    spList,          \* per pair: the Spotify playlist, entries [id, addedAt]
    ytList,          \* per pair: the YouTube playlist, entries [id, addedAt]
    cacheFile,       \* per pair: the content of .cache/sp2yt_<id>.json
    pc,              \* where main is
    mode, dryRun,    \* the arguments of this invocation
    pair,            \* index into CONFIG.pairs of the running leg
    addedCountTotal, \* runSp2Yt's result
    recentLimitOverride, \* runYt2Sp's argument (-1 = not given)
    cache,           \* the in-memory cache of the pair being synced
    loaded,          \* the cache as loadCache returned it for this pair
    spItemsAll,      \* the fetched Spotify list of the pair
    destSet,         \* ytVideoSet (SP->YT) or spTrackSet (YT->SP)
    inspected,       \* spItems (SP->YT) or ytItems (YT->SP): the recent window
    candidates,      \* SP->YT: the candidates selected within the window
    plan,            \* the plan built for the pair
    todo,            \* the adds still to apply, in application order
    addedThisPair,   \* successful adds of this pair's SP->YT pass
    insertLog,       \* the insert calls of this pair's pass, with their outcome
    saveCalls,       \* number of saveCache calls of this invocation
    runs, ops,       \* invocations started, user edits made
    last,            \* history, per pair: the last saved non-dry pass since the last
                     \* user edit, of invocations that ran to their end: its leg and
                     \* the sources whose insert failed
    resetPending,    \* history: the track whose key the user removed from map and
                     \* that no later pass on pair 1 has handled, or NoId
    addedByPair,     \* history, per pair: the successful inserts of the SP->YT leg
                     \* of this invocation
    baselined,       \* history, per pair: the Spotify playlist items that were in
                     \* the playlist when a non-dry pass on the pair saved its cache
    journal,         \* history: the calls of saveCache with their outcome and the
                     \* lines printed (index.js 224, 371, 399, 401) by the running
                     \* invocation, or by the last one until the user's next edit
    userAdded,       \* history, per pair: whether a non-dry SP->YT pass on the pair
                     \* has saved its cache (ran), and the playlist entries of the
                     \* tracks the user added since the last SP->YT pass on the pair
                     \* and has not removed
    inserted,        \* history: the successful inserts, with the leg and the pair,
                     \* of the SP->YT leg of this invocation and of the YT->SP legs
                     \* so far, of items the user has not removed or reset since
    probe            \* the function under test, its inputs and its results
                     \* (MatcherSpec, PureSpec; NoProbe in Spec)

vars == <<now, spList, ytList, cacheFile, pc, mode, dryRun, pair, addedCountTotal,
          recentLimitOverride, cache, loaded, spItemsAll, destSet, inspected, candidates,
          plan, todo, addedThisPair, insertLog, saveCalls, runs, ops,
          last, resetPending, addedByPair, baselined, journal, userAdded, inserted, probe>>

world == <<now, spList, ytList, cacheFile>>
locals == <<cache, loaded, spItemsAll, destSet, inspected, candidates, plan, todo,
            addedThisPair, insertLog>>

\* pc between invocations: nothing ran since the last user edit, "Done." was
\* printed (exit code 0), or main's catch ended the process with exit code 1
Rest == {"idle", "done", "failed"}

NoLast == [leg |-> "none", failed |-> {}]

NoProbe == [dir |-> "none", src |-> "none", pool |-> <<>>, at |-> 0, results |-> <<>>, soft |-> <<>>]

Entries(ids, at) == [i \in 1..Len(ids) |-> [id |-> ids[i], addedAt |-> at]]

\* the locals of a pass before the pass
ResetLocals ==
    /\ cache' = EmptyCache
    /\ loaded' = EmptyCache
    /\ spItemsAll' = <<>>
    /\ destSet' = {}
    /\ inspected' = <<>>
    /\ candidates' = <<>>
    /\ plan' = <<>>
    /\ todo' = <<>>
    /\ addedThisPair' = 0
    /\ insertLog' = <<>>

\* The playlists before the first run: pair 1 with or without one old track,
\* with or without ten later filler items on each side; pair 2 with eleven
\* videos and no track.  No cache file exists yet.
Init ==
    /\ now = 2
    /\ \E old \in BOOLEAN, filled \in BOOLEAN :
          /\ spList = << (IF old THEN Entries(<<"s3">>, 1) ELSE <<>>)
                           \o (IF filled THEN Entries(FillTracks, 2) ELSE <<>>),
                         <<>> >>
          /\ ytList = << IF filled THEN Entries(FillVideos, 2) ELSE <<>>,
                         Entries(FillVideos2, 2) >>
    /\ cacheFile = [p \in 1..NPairs |-> EmptyCache]
    /\ pc = "idle"
    /\ mode = "sp2yt"
    /\ dryRun = FALSE
    /\ pair = 1
    /\ addedCountTotal = 0
    /\ recentLimitOverride = -1
    /\ cache = EmptyCache
    /\ loaded = EmptyCache
    /\ spItemsAll = <<>>
    /\ destSet = {}
    /\ inspected = <<>>
    /\ candidates = <<>>
    /\ plan = <<>>
    /\ todo = <<>>
    /\ addedThisPair = 0
    /\ insertLog = <<>>
    /\ saveCalls = 0
    /\ runs = 0
    /\ ops = 0
    /\ last = [p \in 1..NPairs |-> NoLast]
    /\ resetPending = NoId
    /\ addedByPair = [p \in 1..NPairs |-> 0]
    /\ baselined = [p \in 1..NPairs |-> {}]
    /\ journal = <<>>
    /\ userAdded = [p \in 1..NPairs |-> [ran |-> FALSE, entries |-> {}]]
    /\ inserted = {}
    /\ probe = NoProbe

\* loadCache: the file's content over the defaults (a missing file is the defaults)
loadCache(p) == cacheFile[p]

\* mutation of IsCandidate: every unmapped item of the window is a candidate
\* on every run, not only on the first
IsCandidateBackfill(it, c, ytVideoSet) ==
    LET mapped == MapGet(c.map, it.id)
    IN  \/ mapped = NoId
        \/ mapped \notin ytVideoSet
        \/ isAfter(it.addedAt, c.lastSync)
        \/ it.id \notin c.seenTrackIds

\* ---- SP -> YT: candidates and plan (index.js 109-171)
IsCandidate(it, c, ytVideoSet) ==
    LET mapped == MapGet(c.map, it.id)
        firstRun == c.lastSync = 0
        addedRecently == isAfter(it.addedAt, c.lastSync)
        unseen == it.id \notin c.seenTrackIds
        mappedButMissing == mapped # NoId /\ mapped \notin ytVideoSet
    IN  \/ firstRun /\ (mapped = NoId \/ mappedButMissing)
        \/ addedRecently
        \/ unseen
        \/ mappedButMissing

Sp2YtWindow(items) == FirstN(sortByAddedAtDesc(items), RECENT_SPOTIFY_LIMIT)

Sp2YtCandidates(items, c, ytVideoSet) ==
    SelectSeq(Sp2YtWindow(items), LAMBDA it : IsCandidate(it, c, ytVideoSet))

\* the plan entries (none or one) of candidate s
Sp2YtEntry(s, c, ytItems, ytVideoSet) ==
    With3(MapGet(c.map, s.id), findSoftDupeInPlaylist(TrackInfo(s.id), ytItems),
          findBestYouTubeForSpotifyTrack(TrackInfo(s.id), DEFAULT_DURATION_SLACK_SEC),
          LAMBDA mapped, softDupe, r :
    LET e(action, dst, reason) == [src |-> s.id, srcAt |-> s.addedAt, action |-> action,
                                   dst |-> dst, reason |-> reason]
    IN  IF mapped # NoId /\ mapped \in ytVideoSet THEN <<>>
        ELSE IF softDupe # NoId THEN << e("map-only", softDupe, "soft-dup-in-playlist") >>
        ELSE IF r.best = NoId THEN << e("skip", NoId, r.reason) >>
        ELSE IF r.best \in ytVideoSet THEN << e("map-only", r.best, "") >>
        ELSE << e("add", r.best, "") >>)

Sp2YtPlanOf(cands, c, ytItems, ytVideoSet) ==
    Flatten([i \in 1..Len(cands) |-> Sp2YtEntry(cands[i], c, ytItems, ytVideoSet)])

Adds(pl) == SelectSeq(pl, LAMBDA p : p.action = "add")
Maps(pl) == SelectSeq(pl, LAMBDA p : p.action = "map-only")

\* mutation of ApplyOrder: the adds applied in plan order (no reverse())
ApplyOrderAsPlanned(pl) == Adds(pl)

\* the order in which the adds are applied: adds.slice().reverse()
ApplyOrder(pl) == Reverse(Adds(pl))

\* mutation of Applies: the dry-run flag ignored
AppliesAlways(d) == TRUE

\* "if (!dryRun)": whether the plan is applied and the cache saved
Applies(d) == ~d

\* mutation of newSeen: the fetched playlist not merged into the baseline
newSeenKeep(seen, ids) == seen

\* newSeen: the baseline after a pass, from the loaded seenTrackIds and the
\* IDs the pass marks as seen
newSeen(seen, ids) == seen \cup ids

\* an entry of the journal: a call of saveCache and whether it returned, or a
\* line printed: "Cache updated" of a pass, the error that main's catch
\* prints, "Done."
Line(ev, leg, p, ok) == [ev |-> ev, leg |-> leg, pair |-> p, ok |-> ok]

\* mutation of Propagates: the pass goes on after a throw of saveCache
PropagatesNever(written) == FALSE

\* whether the call of saveCache leaves the leg: it is in no try block
\* (index.js 223, 370), so a throw reaches main's catch (index.js 400-403)
Propagates(written) == ~written

\* mutation of Remaining: a throwing insert ends the add loop
RemainingAbort(td, ok) == IF ok THEN Tail(td) ELSE <<>>

\* the adds left after one pass of the add loop: the try/catch around the
\* insert lets the loop go on whether the insert succeeded (ok) or threw
Remaining(td, ok) == Tail(td)

\* the sources of the insert calls that threw
FailedSources(log) == {log[i].src : i \in {j \in 1..Len(log) : ~log[j].ok}}

\* map[k] = v for each <<k, v>> of kvs, in order
RECURSIVE MapSetAll(_, _)
MapSetAll(m, kvs) ==
    IF kvs = <<>> THEN m ELSE MapSetAll(MapSet(m, Head(kvs)[1], Head(kvs)[2]), Tail(kvs))

\* ---- main (index.js 379-403): one invocation with its mode and --dry-run
Main(m, d) ==
    /\ pc \in Rest
    /\ runs < MaxRuns
    /\ runs + ops < MaxEvents
    /\ runs' = runs + 1
    /\ mode' = m
    /\ dryRun' = d
    /\ pc' = IF m = "yt2sp" THEN "yt2sp" ELSE "sp2yt"
    /\ pair' = 1
    /\ addedCountTotal' = 0
    /\ recentLimitOverride' = -1
    /\ saveCalls' = 0
    /\ ResetLocals
    /\ addedByPair' = [p \in 1..NPairs |-> 0]
    /\ UNCHANGED <<world, ops, last, resetPending>>
    /\ UNCHANGED <<baselined, probe>>
    /\ journal' = <<>>
    /\ inserted' = {r \in inserted : r.leg = "yt2sp"}
    /\ UNCHANGED userAdded

\* ---- runSp2Yt, one pair: load the cache, fetch both lists, select the
\* candidates and build the plan (index.js 109-171)
Sp2YtPlan ==
    /\ pc = "sp2yt"
    /\ pair <= NPairs
    /\ LET c == loadCache(pair)
           ytItems == ytList[pair]
           ytVideoSet == IdsOf(ytItems)
           cands == Sp2YtCandidates(spList[pair], c, ytVideoSet)
       IN  /\ cache' = c
           /\ loaded' = c
           /\ spItemsAll' = spList[pair]
           /\ destSet' = ytVideoSet
           /\ inspected' = Sp2YtWindow(spList[pair])
           /\ candidates' = cands
           /\ plan' = Sp2YtPlanOf(cands, c, ytItems, ytVideoSet)
    /\ todo' = IF Applies(dryRun) THEN ApplyOrder(plan') ELSE <<>>
    /\ addedThisPair' = 0
    /\ insertLog' = <<>>
    /\ pc' = "sp2yt_apply"
    /\ UNCHANGED <<world, mode, dryRun, pair, addedCountTotal, recentLimitOverride,
                   saveCalls, runs, ops, last, resetPending, addedByPair>>
    /\ UNCHANGED <<baselined, probe>>
    /\ userAdded' = [userAdded EXCEPT ![pair].entries = {}]
    /\ UNCHANGED <<journal, inserted>>

\* one pass of the add loop (index.js 197-207): insertIntoPlaylist succeeds
\* (the video is appended to the playlist) or throws
Sp2YtInsert ==
    /\ pc = "sp2yt_apply"
    /\ Applies(dryRun)
    /\ todo # <<>>
    /\ \E ok \in BOOLEAN :
          /\ insertLog' = Append(insertLog, [src |-> Head(todo).src, srcAt |-> Head(todo).srcAt,
                                             dst |-> Head(todo).dst, ok |-> ok])
          /\ todo' = Remaining(todo, ok)
          /\ IF ok
             THEN /\ now' = now + 1
                  /\ ytList' = [ytList EXCEPT ![pair] = Append(@, [id |-> Head(todo).dst, addedAt |-> now + 1])]
                  /\ destSet' = destSet \cup {Head(todo).dst}
                  /\ cache' = [cache EXCEPT !.map = MapSet(@, Head(todo).src, Head(todo).dst)]
                  /\ addedThisPair' = addedThisPair + 1
                  /\ inserted' = inserted \cup {[leg |-> "sp2yt", pair |-> pair,
                                                  src |-> Head(todo).src, dst |-> Head(todo).dst]}
             ELSE UNCHANGED <<now, ytList, destSet, cache, addedThisPair, inserted>>
    /\ UNCHANGED <<spList, cacheFile, pc, mode, dryRun, pair, addedCountTotal,
                   recentLimitOverride, loaded, spItemsAll, inspected, candidates, plan,
                   saveCalls, runs, ops, last, resetPending, addedByPair>>
    /\ UNCHANGED <<baselined, probe>>
    /\ UNCHANGED <<journal, userAdded>>

Sp2YtKvs(pl) == [i \in 1..Len(pl) |-> <<pl[i].src, pl[i].dst>>]

\* the rest of the non-dry pass (index.js 209-229): the map-only entries, the
\* baseline, then saveCache, which writes the file or throws; a throw leaves
\* runSp2Yt and main, and the process exits with code 1
Sp2YtPersist ==
    /\ pc = "sp2yt_apply"
    /\ Applies(dryRun)
    /\ todo = <<>>
    /\ cache' = [lastSync |-> now,
                 seenTrackIds |-> newSeen(loaded.seenTrackIds, IdsOf(spItemsAll)),
                 map |-> MapSetAll(cache.map, Sp2YtKvs(Maps(plan)))]
    /\ saveCalls' = saveCalls + 1
    /\ resetPending' = IF pair = 1 THEN NoId ELSE resetPending
    /\ \E written \in BOOLEAN :
          IF ~Propagates(written)
          THEN /\ cacheFile' = [cacheFile EXCEPT ![pair] = cache']
               /\ baselined' = [baselined EXCEPT ![pair] = @ \cup Range(spList[pair])]
               /\ addedCountTotal' = addedCountTotal + addedThisPair
               /\ addedByPair' = [addedByPair EXCEPT ![pair] = addedThisPair]
               /\ last' = [last EXCEPT ![pair] = [leg |-> "sp2yt", failed |-> FailedSources(insertLog)]]
               /\ pair' = pair + 1
               /\ pc' = "sp2yt"
               /\ userAdded' = [userAdded EXCEPT ![pair].ran = TRUE]
               /\ journal' = journal \o << Line("saveCache", "sp2yt", pair, written),
                                            Line("Cache updated", "sp2yt", pair, TRUE) >>
          ELSE /\ pc' = "failed"
               /\ UNCHANGED userAdded
               /\ journal' = journal \o << Line("saveCache", "sp2yt", pair, written),
                                            Line("error", "sp2yt", pair, FALSE) >>
               /\ UNCHANGED baselined
               /\ last' = [p \in 1..NPairs |-> NoLast]
               /\ UNCHANGED <<cacheFile, addedCountTotal, addedByPair, pair>>
    /\ UNCHANGED <<now, spList, ytList, mode, dryRun, recentLimitOverride, loaded, spItemsAll,
                   destSet, inspected, candidates, plan, todo, addedThisPair, insertLog,
                   runs, ops>>
    /\ UNCHANGED probe
    /\ UNCHANGED inserted

\* the dry-run branch (index.js 225-229)
Sp2YtDryRun ==
    /\ pc = "sp2yt_apply"
    /\ ~Applies(dryRun)
    /\ addedCountTotal' = addedCountTotal + addedThisPair
    /\ addedByPair' = [addedByPair EXCEPT ![pair] = addedThisPair]
    /\ pair' = pair + 1
    /\ pc' = "sp2yt"
    /\ UNCHANGED <<world, locals, mode, dryRun, recentLimitOverride, saveCalls,
                   runs, ops, last, resetPending>>
    /\ UNCHANGED <<baselined, probe>>
    /\ UNCHANGED <<journal, userAdded, inserted>>

\* runSp2Yt returns { addedCount }; main ends, or in mode both calls runYt2Sp
\* with recentLimitOverride = RECENT_YOUTUBE_LIMIT + addedCount (index.js 387-399)
Sp2YtReturn ==
    /\ pc = "sp2yt"
    /\ pair > NPairs
    /\ IF mode = "both"
       THEN /\ pc' = "yt2sp"
            /\ pair' = 1
            /\ recentLimitOverride' = RECENT_YOUTUBE_LIMIT + addedCountTotal
       ELSE /\ pc' = "done"
            /\ UNCHANGED <<pair, recentLimitOverride>>
    /\ journal' = IF mode = "both" THEN journal ELSE Append(journal, Line("Done.", "none", 0, TRUE))
    /\ UNCHANGED <<world, locals, mode, dryRun, addedCountTotal, saveCalls, runs, ops,
                   last, resetPending, addedByPair>>
    /\ UNCHANGED <<baselined, probe>>
    /\ UNCHANGED <<userAdded, inserted>>

\* ---- YT -> SP: window and plan (index.js 248-315)
effectiveRecent(override) == IF override >= 0 THEN Max2(0, override) ELSE RECENT_YOUTUBE_LIMIT

Yt2SpWindow(items, override) == FirstN(sortByAddedAtDesc(items), effectiveRecent(override))

\* reverseMap.get(v): the key of the last entry of map whose value is v
reverseMapGet(m, v) ==
    LET hits == {i \in 1..Len(m) : m[i][2] = v}
    IN  IF hits = {} THEN NoId ELSE m[CHOOSE i \in hits : \A j \in hits : j <= i][1]

\* the plan entries (none or one) of video v of the window
Yt2SpEntry(v, c, spItems, spTrackSet) ==
    With3(reverseMapGet(c.map, v.id), findSoftDupeInSpotify(YtCandidate(v.id), spItems),
          findBestSpotifyForYouTubeVideo(YtCandidate(v.id), DEFAULT_DURATION_SLACK_SEC),
          LAMBDA mappedSp, softDup, r :
    LET e(action, dst, reason) == [src |-> v.id, srcAt |-> v.addedAt, action |-> action,
                                   dst |-> dst, reason |-> reason]
    IN  IF mappedSp # NoId
        THEN (IF mappedSp \in spTrackSet THEN <<>> ELSE << e("add", mappedSp, "mapped-but-missing") >>)
        ELSE IF softDup # NoId THEN << e("map-only", softDup, "soft-dup-in-playlist") >>
        ELSE IF r.best = NoId THEN << e("skip", NoId, r.reason) >>
        ELSE IF r.best \in spTrackSet THEN << e("map-only", r.best, "") >>
        ELSE << e("add", r.best, "") >>)

Yt2SpPlanOf(ytItems, c, spItems, spTrackSet) ==
    Flatten([i \in 1..Len(ytItems) |-> Yt2SpEntry(ytItems[i], c, spItems, spTrackSet)])

\* ---- runYt2Sp, one pair: load, fetch, window, plan (index.js 248-315)
Yt2SpPlan ==
    /\ pc = "yt2sp"
    /\ pair <= NPairs
    /\ cache' = loadCache(pair)
    /\ loaded' = loadCache(pair)
    /\ spItemsAll' = spList[pair]
    /\ destSet' = IdsOf(spList[pair])
    /\ inspected' = Yt2SpWindow(ytList[pair], recentLimitOverride)
    /\ candidates' = <<>>
    /\ plan' = Yt2SpPlanOf(inspected', loadCache(pair), spList[pair], IdsOf(spList[pair]))
    /\ todo' = IF Applies(dryRun) THEN ApplyOrder(plan') ELSE <<>>
    /\ addedThisPair' = 0
    /\ insertLog' = <<>>
    /\ pc' = "yt2sp_apply"
    /\ UNCHANGED <<world, mode, dryRun, pair, addedCountTotal, recentLimitOverride,
                   saveCalls, runs, ops, last, resetPending, addedByPair>>
    /\ UNCHANGED <<baselined, probe>>
    /\ UNCHANGED <<journal, userAdded, inserted>>

\* one pass of the add loop (index.js 340-349): addTracksToPlaylist succeeds
\* (the track is appended to the playlist) or throws
Yt2SpInsert ==
    /\ pc = "yt2sp_apply"
    /\ Applies(dryRun)
    /\ todo # <<>>
    /\ \E ok \in BOOLEAN :
          /\ insertLog' = Append(insertLog, [src |-> Head(todo).src, srcAt |-> Head(todo).srcAt,
                                             dst |-> Head(todo).dst, ok |-> ok])
          /\ todo' = Remaining(todo, ok)
          /\ IF ok
             THEN /\ now' = now + 1
                  /\ spList' = [spList EXCEPT ![pair] = Append(@, [id |-> Head(todo).dst, addedAt |-> now + 1])]
                  /\ destSet' = destSet \cup {Head(todo).dst}
                  /\ cache' = [cache EXCEPT !.map = MapSet(@, Head(todo).dst, Head(todo).src)]
                  /\ inserted' = inserted \cup {[leg |-> "yt2sp", pair |-> pair,
                                                  src |-> Head(todo).src, dst |-> Head(todo).dst]}
             ELSE UNCHANGED <<now, spList, destSet, cache, inserted>>
    /\ UNCHANGED <<ytList, cacheFile, pc, mode, dryRun, pair, addedCountTotal,
                   recentLimitOverride, loaded, spItemsAll, inspected, candidates, plan,
                   addedThisPair, saveCalls, runs, ops, last, resetPending, addedByPair>>
    /\ UNCHANGED <<baselined, probe>>
    /\ UNCHANGED <<journal, userAdded>>

\* mutation of Yt2SpKvs: map[youtubeVideoId] = spotifyTrackId
Yt2SpKvsReversed(pl) == [i \in 1..Len(pl) |-> <<pl[i].src, pl[i].dst>>]

\* the writes "cache.map[p.spTrackId] = p.v.id" of the entries pl (index.js 352-359)
Yt2SpKvs(pl) == [i \in 1..Len(pl) |-> <<pl[i].dst, pl[i].src>>]

\* the rest of the non-dry pass (index.js 351-371): the map-only entries, the
\* baseline (every fetched track and the track of every planned add), saveCache
Yt2SpPersist ==
    /\ pc = "yt2sp_apply"
    /\ Applies(dryRun)
    /\ todo = <<>>
    /\ cache' = [lastSync |-> now,
                 seenTrackIds |-> newSeen(cache.seenTrackIds,
                                          IdsOf(spItemsAll) \cup {p.dst : p \in Range(Adds(plan))}),
                 map |-> MapSetAll(cache.map, Yt2SpKvs(Maps(plan)))]
    /\ saveCalls' = saveCalls + 1
    /\ resetPending' = IF pair = 1 THEN NoId ELSE resetPending
    /\ \E written \in BOOLEAN :
          IF ~Propagates(written)
          THEN /\ cacheFile' = [cacheFile EXCEPT ![pair] = cache']
               /\ baselined' = [baselined EXCEPT ![pair] = @ \cup Range(spList[pair])]
               /\ last' = [last EXCEPT ![pair] = [leg |-> "yt2sp", failed |-> FailedSources(insertLog)]]
               /\ pair' = pair + 1
               /\ pc' = "yt2sp"
               /\ journal' = journal \o << Line("saveCache", "yt2sp", pair, written),
                                            Line("Cache updated", "yt2sp", pair, TRUE) >>
          ELSE /\ pc' = "failed"
               /\ journal' = journal \o << Line("saveCache", "yt2sp", pair, written),
                                            Line("error", "yt2sp", pair, FALSE) >>
               /\ UNCHANGED baselined
               /\ last' = [p \in 1..NPairs |-> NoLast]
               /\ UNCHANGED <<cacheFile, pair>>
    /\ UNCHANGED <<now, spList, ytList, mode, dryRun, addedCountTotal, recentLimitOverride,
                   loaded, spItemsAll, destSet, inspected, candidates, plan, todo,
                   addedThisPair, insertLog, runs, ops, addedByPair>>
    /\ UNCHANGED probe
    /\ UNCHANGED <<userAdded, inserted>>

\* the dry-run branch (index.js 372-374)
Yt2SpDryRun ==
    /\ pc = "yt2sp_apply"
    /\ ~Applies(dryRun)
    /\ pair' = pair + 1
    /\ pc' = "yt2sp"
    /\ UNCHANGED <<world, locals, mode, dryRun, addedCountTotal, recentLimitOverride,
                   saveCalls, runs, ops, last, resetPending, addedByPair>>
    /\ UNCHANGED <<baselined, probe>>
    /\ UNCHANGED <<journal, userAdded, inserted>>

\* runYt2Sp returns and main prints "Done." (index.js 399)
Yt2SpReturn ==
    /\ pc = "yt2sp"
    /\ pair > NPairs
    /\ pc' = "done"
    /\ journal' = Append(journal, Line("Done.", "none", 0, TRUE))
    /\ UNCHANGED <<world, locals, mode, dryRun, pair, addedCountTotal, recentLimitOverride,
                   saveCalls, runs, ops, last, resetPending, addedByPair>>
    /\ UNCHANGED <<baselined, probe>>
    /\ UNCHANGED <<userAdded, inserted>>

\* ---- the user, between invocations, on pair 1: adds a track or a video
\* that is not in the playlist, removes one, or deletes one key of map from
\* the cache file (the README's reset of a single song)
RemoveId(items, id) == SelectSeq(items, LAMBDA e : e.id # id)

\* what every edit of the user does besides the edit
UserEdit ==
    /\ pc \in Rest
    /\ ops < MaxOps
    /\ runs + ops < MaxEvents
    /\ ops' = ops + 1
    /\ pc' = "idle"
    /\ ResetLocals
    /\ last' = [last EXCEPT ![1] = NoLast]
    /\ UNCHANGED <<mode, dryRun, pair, addedCountTotal, recentLimitOverride, saveCalls,
                   runs, addedByPair>>
    /\ UNCHANGED <<baselined, probe>>
    /\ journal' = <<>>

\* the inserts that do not involve the item id of pair 1
Untouched(id) == {r \in inserted : r.pair # 1 \/ (r.src # id /\ r.dst # id)}

UserAddTrack(t) ==
    /\ UserEdit
    /\ t \notin IdsOf(spList[1])
    /\ now' = now + 1
    /\ spList' = [spList EXCEPT ![1] = Append(@, [id |-> t, addedAt |-> now + 1])]
    /\ UNCHANGED <<ytList, cacheFile, resetPending>>
    /\ userAdded' = [userAdded EXCEPT ![1].entries = @ \cup {[id |-> t, addedAt |-> now + 1]}]
    /\ UNCHANGED inserted

UserAddVideo(v) ==
    /\ UserEdit
    /\ v \notin IdsOf(ytList[1])
    /\ now' = now + 1
    /\ ytList' = [ytList EXCEPT ![1] = Append(@, [id |-> v, addedAt |-> now + 1])]
    /\ UNCHANGED <<spList, cacheFile, resetPending>>
    /\ UNCHANGED userAdded
    /\ UNCHANGED inserted

\* the tracks the user removes: the tracks the user adds, and one of the
\* filler tracks, whose removal moves an older track into the recent window
RemovableTracks == TrackIds \cup {FillTracks[1]}

UserRemoveTrack(t) ==
    /\ UserEdit
    /\ t \in IdsOf(spList[1])
    /\ spList' = [spList EXCEPT ![1] = RemoveId(@, t)]
    /\ UNCHANGED <<now, ytList, cacheFile, resetPending>>
    /\ userAdded' = [userAdded EXCEPT ![1].entries = {e \in @ : e.id # t}]
    /\ inserted' = Untouched(t)

UserRemoveVideo(v) ==
    /\ UserEdit
    /\ v \in IdsOf(ytList[1])
    /\ ytList' = [ytList EXCEPT ![1] = RemoveId(@, v)]
    /\ UNCHANGED <<now, spList, cacheFile, resetPending>>
    /\ UNCHANGED userAdded
    /\ inserted' = Untouched(v)

ResetSong(t) ==
    /\ UserEdit
    /\ t \in MapKeys(cacheFile[1].map)
    /\ cacheFile' = [cacheFile EXCEPT ![1].map = MapDelete(@, t)]
    /\ resetPending' = t
    /\ UNCHANGED <<now, spList, ytList>>
    /\ UNCHANGED userAdded
    /\ inserted' = Untouched(t)

Next ==
    \/ \E m \in MODES, d \in BOOLEAN : Main(m, d)
    \/ Sp2YtPlan
    \/ Sp2YtInsert
    \/ Sp2YtPersist
    \/ Sp2YtDryRun
    \/ Sp2YtReturn
    \/ Yt2SpPlan
    \/ Yt2SpInsert
    \/ Yt2SpPersist
    \/ Yt2SpDryRun
    \/ Yt2SpReturn
    \/ \E t \in TrackIds : UserAddTrack(t)
    \/ \E v \in VideoIds : UserAddVideo(v)
    \/ \E t \in RemovableTracks : UserRemoveTrack(t)
    \/ \E v \in VideoIds : UserRemoveVideo(v)
    \/ \E t \in TrackIds : ResetSong(t)

Spec == Init /\ [][Next]_vars

\* ====================================================================
\* The matchers on their own: a source item and the candidates its search
\* returns are drawn from bounded sets, and the matcher is applied to them
\* on one day and again on the same or a later day.
\* ====================================================================
MaxPad == 5
MaxBody == 3
MaxAttempts == 2
\* the days of the attempts
ProbeDays == {40, 100}

PoolIds == <<"c1", "c2", "c3", "c4", "c5", "c6", "c7", "c8", "c9", "c10">>

\* Spotify items to match: a song, and a title without usable text
SpSourceKinds == {"song", "noise"}
SpSource(k) ==
    CASE k = "song" -> [title |-> <<"alpha">>, artists |-> << <<"ann">> >>, durationMs |-> 200000]
      [] OTHER -> [title |-> <<"x">>, artists |-> <<>>, durationMs |-> 200000]

\* YouTube videos to match: an upload of the song on the artist's topic
\* channel, on her VEVO channel, on a "Various Artists - Topic" channel, on a
\* fan's channel, and a video without usable text
YtSourceKinds == {"topic", "vevo", "various", "fan", "noise"}
YtSource(k) ==
    CASE k = "topic" -> [title |-> <<"ann", "-", "alpha">>, channelTitle |-> <<"ann", "-", "topic">>, durationMs |-> 200000]
      [] k = "vevo" -> [title |-> <<"ann", "-", "alpha">>, channelTitle |-> <<"ann", "vevo">>, durationMs |-> 200000]
      [] k = "various" -> [title |-> <<"ann", "-", "alpha">>, channelTitle |-> <<"various", "artists", "-", "topic">>, durationMs |-> 200000]
      [] k = "fan" -> [title |-> <<"ann", "-", "alpha">>, channelTitle |-> <<"fan", "uploads">>, durationMs |-> 200000]
      [] OTHER -> [title |-> <<"x">>, channelTitle |-> <<>>, durationMs |-> 200000]

\* search results of YouTube: an old upload, a much viewed upload published
\* on day 20, a live recording, and a video of another length
YtKinds == {"plain", "fresh", "live", "long"}
YtKind(k) ==
    CASE k = "plain" -> [title |-> <<"ann", "-", "alpha">>, channelTitle |-> <<"ann", "vids">>, description |-> <<>>,
                         categoryId |-> "10", durationMs |-> 206000, viewsLog10 |-> 5, publishedAt |-> 1]
      [] k = "fresh" -> [title |-> <<"ann", "-", "alpha">>, channelTitle |-> <<"ann", "vids">>, description |-> <<>>,
                         categoryId |-> "10", durationMs |-> 206000, viewsLog10 |-> 8, publishedAt |-> 20]
      [] k = "live" -> [title |-> <<"ann", "-", "alpha", "live">>, channelTitle |-> <<"ann", "-", "topic">>, description |-> <<>>,
                        categoryId |-> "10", durationMs |-> 200000, viewsLog10 |-> 8, publishedAt |-> 1]
      [] OTHER -> [title |-> <<"ann", "-", "alpha">>, channelTitle |-> <<"ann", "vids">>, description |-> <<>>,
                   categoryId |-> "10", durationMs |-> 400000, viewsLog10 |-> 5, publishedAt |-> 1]

\* search results of Spotify: the song 5 s longer, the song with the same
\* length and a low popularity, a longer title, a music-video release by
\* another artist, a live release, the title by another artist, and a track
\* of another length
SpKinds == {"exactFar", "exactNear", "longer", "mv", "live", "other", "long"}
SpKind(k) ==
    CASE k = "exactFar" -> [title |-> <<"alpha">>, artists |-> << <<"ann">> >>, durationMs |-> 205000, popularity |-> 50]
      [] k = "exactNear" -> [title |-> <<"alpha">>, artists |-> << <<"ann">> >>, durationMs |-> 200000, popularity |-> 10]
      [] k = "longer" -> [title |-> <<"alpha", "beta">>, artists |-> << <<"ann">> >>, durationMs |-> 200000, popularity |-> 100]
      [] k = "mv" -> [title |-> <<"alpha", "music", "video">>, artists |-> << <<"bob">> >>, durationMs |-> 200000, popularity |-> 50]
      [] k = "live" -> [title |-> <<"alpha", "live">>, artists |-> << <<"ann">> >>, durationMs |-> 200000, popularity |-> 90]
      [] k = "other" -> [title |-> <<"alpha">>, artists |-> << <<"bob">> >>, durationMs |-> 200000, popularity |-> 50]
      [] OTHER -> [title |-> <<"alpha">>, artists |-> << <<"ann">> >>, durationMs |-> 400000, popularity |-> 50]

\* the candidates of an attempt on day at: toCandidate (youtube.js 187-196)
\* and candToObj (spotify.js 220-229) of the search results, in search order
YtProbeCandidates(pool, at) ==
    [i \in 1..Len(pool) |->
        With(YtKind(pool[i]), LAMBDA v :
            [id |-> PoolIds[i], title |-> v.title, channelTitle |-> v.channelTitle,
             description |-> v.description, categoryId |-> v.categoryId, durationMs |-> v.durationMs,
             viewsLog10 |-> v.viewsLog10, recent |-> isRecent(at, v.publishedAt)])]
SpProbeCandidates(pool) == [i \in 1..Len(pool) |-> [id |-> PoolIds[i]] @@ SpKind(pool[i])]

\* the IDs each of nq queries returns when n tracks are found in all: one
\* query returns all of them; of two, the first returns all but the last
\* third and the second all but the first third
ProbeHits(n, nq) ==
    IF nq = 1 THEN << FirstN(PoolIds, n) >>
    ELSE << SubSeq(PoolIds, 1, n - n \div 3), SubSeq(PoolIds, n \div 3 + 1, n) >>

\* the candidates after the query loop of nq queries (spotify.js 201-229)
SpProbeMerged(pool, nq) ==
    With2(Merged(ProbeHits(Len(pool), nq)), SpProbeCandidates(pool), LAMBDA ids, found :
        [k \in 1..Len(ids) |-> found[CHOOSE i \in 1..Len(pool) : PoolIds[i] = ids[k]]])

\* the search results drawn: up to MaxPad results of another length, then up
\* to MaxBody results of any kind
PoolsOver(kinds) ==
    {[i \in 1..n |-> "long"] \o body :
        n \in 0..MaxPad, body \in UNION {[1..m -> kinds] : m \in 0..MaxBody}}

mainVars == <<now, spList, ytList, cacheFile, pc, mode, dryRun, pair, addedCountTotal,
              recentLimitOverride, cache, loaded, spItemsAll, destSet, inspected, candidates,
              plan, todo, addedThisPair, insertLog, saveCalls, runs, ops,
              last, resetPending, addedByPair, baselined, journal, userAdded, inserted>>

MatcherInit ==
    /\ now = 2
    /\ spList = [p \in 1..NPairs |-> <<>>]
    /\ ytList = [p \in 1..NPairs |-> <<>>]
    /\ cacheFile = [p \in 1..NPairs |-> EmptyCache]
    /\ pc = "idle"
    /\ mode = "sp2yt"
    /\ dryRun = FALSE
    /\ pair = 1
    /\ addedCountTotal = 0
    /\ recentLimitOverride = -1
    /\ cache = EmptyCache
    /\ loaded = EmptyCache
    /\ spItemsAll = <<>>
    /\ destSet = {}
    /\ inspected = <<>>
    /\ candidates = <<>>
    /\ plan = <<>>
    /\ todo = <<>>
    /\ addedThisPair = 0
    /\ insertLog = <<>>
    /\ saveCalls = 0
    /\ runs = 0
    /\ ops = 0
    /\ last = [p \in 1..NPairs |-> NoLast]
    /\ resetPending = NoId
    /\ addedByPair = [p \in 1..NPairs |-> 0]
    /\ baselined = [p \in 1..NPairs |-> {}]
    /\ journal = <<>>
    /\ userAdded = [p \in 1..NPairs |-> [ran |-> FALSE, entries |-> {}]]
    /\ inserted = {}
    /\ \/ \E k \in SpSourceKinds, pool \in PoolsOver(YtKinds) :
             probe = [dir |-> "sp2yt", src |-> k, pool |-> pool, at |-> 0, results |-> <<>>, soft |-> <<>>]
       \/ \E k \in YtSourceKinds, pool \in PoolsOver(SpKinds) :
             probe = [dir |-> "yt2sp", src |-> k, pool |-> pool, at |-> 0, results |-> <<>>, soft |-> <<>>]

\* one call of findBestYouTubeForSpotifyTrack on day at: its result, with the
\* number of search calls it made (youtube.js 171) and the day
MatchYouTube ==
    /\ probe.dir = "sp2yt"
    /\ Len(probe.results) < MaxAttempts
    /\ \E at \in ProbeDays :
          /\ at >= probe.at
          /\ probe' = [probe EXCEPT
                !.at = at,
                !.results = Append(@,
                    YouTubeMatch(SpSource(probe.src), YtProbeCandidates(probe.pool, at),
                                 DEFAULT_DURATION_SLACK_SEC)
                    @@ [score |-> YouTubeMatchScore(SpSource(probe.src), YtProbeCandidates(probe.pool, at),
                                                    DEFAULT_DURATION_SLACK_SEC),
                        searches |-> 1, at |-> at])]
    /\ UNCHANGED mainVars

\* one call of findBestSpotifyForYouTubeVideo on day at: its result, with the
\* queries, the IDs each search call returned (spotify.js 204-211, one call
\* per query) and the IDs of the candidates after the query loop
MatchSpotify ==
    /\ probe.dir = "yt2sp"
    /\ Len(probe.results) < MaxAttempts
    /\ \E at \in ProbeDays :
          /\ at >= probe.at
          /\ With2(YtSource(probe.src), SpotifyQueries(YtSource(probe.src)), LAMBDA ytItem, queries :
             With(SpProbeMerged(probe.pool, Len(queries)), LAMBDA all :
                probe' = [probe EXCEPT
                    !.at = at,
                    !.results = Append(@,
                        SpotifyMatch(ytItem, all, DEFAULT_DURATION_SLACK_SEC)
                        @@ [score |-> SpotifyMatchScore(ytItem, all, DEFAULT_DURATION_SLACK_SEC),
                            searches |-> Len(queries), at |-> at, queries |-> queries,
                            hits |-> ProbeHits(Len(probe.pool), Len(queries)),
                            all |-> [k \in 1..Len(all) |-> all[k].id]])]))
    /\ UNCHANGED mainVars

\* one call of findSoftDupeInSpotify, the playlist holding the tracks drawn
SoftDupeSpotify ==
    /\ probe.dir = "yt2sp"
    /\ probe.soft = <<>>
    /\ probe' = [probe EXCEPT !.soft =
            << SoftDupeAmong(YtSource(probe.src), SpProbeCandidates(probe.pool),
                             SpProbeCandidates(probe.pool)) >>]
    /\ UNCHANGED mainVars

MatcherNext ==
    \/ MatchYouTube
    \/ MatchSpotify
    \/ SoftDupeSpotify

MatcherSpec == MatcherInit /\ [][MatcherNext]_vars

\* ====================================================================
\* The pure functions on their own: the arguments are drawn from bounded
\* sets (texts from sets of word sequences) and the function is applied.
\* ====================================================================
MaxWords == 3

\* the word sequences of at most n words over a vocabulary
TextsOver(words, n) == UNION {[1..m -> words] : m \in 0..n}

\* titles for jaccardTitle: content words, a stop word, a word that norm()
\* deletes and a punctuation mark
JaccardWords == {"alpha", "beta", "gamma", "the", "lyrics", "-"}

\* durations for the duration tests: unknown (0), the source's, and those
\* around the slack on both sides, for the default slack and a smaller one
ProbeSlacks == {DEFAULT_DURATION_SLACK_SEC, 3}
ProbeSourceMs == {0, 200000}
ProbeCandMs ==
    {0} \cup {200000 + sign * (sec * 1000 + d) : sign \in {-1, 1}, sec \in ProbeSlacks \cup {0}, d \in {-1, 0, 1}}

\* the sides of a dash-delimited title for smartSplitArtistTitle: names,
\* title words and artist-list markers; the channels: an artist's topic
\* channel and a channel that names no artist
SplitWords == {"ann", "alpha", "beta", "&", ",", "feat"}
SplitSides == TextsOver(SplitWords, MaxWords) \ {<<>>}
SplitChannels == {<<"ann", "-", "topic">>, <<"fan", "uploads">>}

\* titles and track names for versionTokens: a title word and version markers
VersionWords == {"alpha", "live", "remix", "acoustic", "lyrics", "remastered"}

\* the video with title a on a channel that names no artist, and the search
\* result with name b, of the same length
VersionYtItem(a) == [title |-> a, channelTitle |-> <<"fan", "uploads">>, durationMs |-> 200000]
VersionCand(b) == [id |-> "c1", title |-> b, artists |-> << <<"ann">> >>, durationMs |-> 200000,
                   popularity |-> 50]

PureInit ==
    /\ now = 2
    /\ spList = [p \in 1..NPairs |-> <<>>]
    /\ ytList = [p \in 1..NPairs |-> <<>>]
    /\ cacheFile = [p \in 1..NPairs |-> EmptyCache]
    /\ pc = "idle"
    /\ mode = "sp2yt"
    /\ dryRun = FALSE
    /\ pair = 1
    /\ addedCountTotal = 0
    /\ recentLimitOverride = -1
    /\ cache = EmptyCache
    /\ loaded = EmptyCache
    /\ spItemsAll = <<>>
    /\ destSet = {}
    /\ inspected = <<>>
    /\ candidates = <<>>
    /\ plan = <<>>
    /\ todo = <<>>
    /\ addedThisPair = 0
    /\ insertLog = <<>>
    /\ saveCalls = 0
    /\ runs = 0
    /\ ops = 0
    /\ last = [p \in 1..NPairs |-> NoLast]
    /\ resetPending = NoId
    /\ addedByPair = [p \in 1..NPairs |-> 0]
    /\ baselined = [p \in 1..NPairs |-> {}]
    /\ journal = <<>>
    /\ userAdded = [p \in 1..NPairs |-> [ran |-> FALSE, entries |-> {}]]
    /\ inserted = {}
    /\ \/ \E a \in TextsOver(JaccardWords, MaxWords), b \in TextsOver(JaccardWords, MaxWords) :
             probe = [dir |-> "jaccard", a |-> a, b |-> b, results |-> <<>>]
       \/ \E left \in SplitSides, right \in SplitSides, ch \in SplitChannels :
             probe = [dir |-> "split", a |-> left \o <<"-">> \o right, b |-> ch, results |-> <<>>]
       \/ \E a \in TextsOver(VersionWords, MaxWords), b \in TextsOver(VersionWords, MaxWords) :
             probe = [dir |-> "version", a |-> a, b |-> b, results |-> <<>>]
       \/ \E a \in ProbeSourceMs, b \in ProbeCandMs, slackSec \in ProbeSlacks :
             probe = [dir |-> "duration", a |-> a, b |-> b, slackSec |-> slackSec, results |-> <<>>]

\* jaccardTitle applied to the two titles in both orders and to each alone
Jaccard ==
    /\ probe.dir = "jaccard"
    /\ probe.results = <<>>
    /\ probe' = [probe EXCEPT !.results =
            << [ab |-> jaccardTitle(probe.a, probe.b), ba |-> jaccardTitle(probe.b, probe.a),
                aa |-> jaccardTitle(probe.a, probe.a), bb |-> jaccardTitle(probe.b, probe.b)] >>]
    /\ UNCHANGED mainVars

\* the duration test of each matcher's hard filter applied to a source and
\* a candidate duration (youtube.js 107, spotify.js 234)
DurationFilters ==
    /\ probe.dir = "duration"
    /\ probe.results = <<>>
    /\ probe' = [probe EXCEPT !.results =
            << [sp2yt |-> ytDurationOk(probe.a, probe.b, probe.slackSec),
                yt2sp |-> durationClose(probe.a, probe.b, probe.slackSec)] >>]
    /\ UNCHANGED mainVars

\* smartSplitArtistTitle applied to the title a and the channel title b
SplitTitle ==
    /\ probe.dir = "split"
    /\ probe.results = <<>>
    /\ probe' = [probe EXCEPT !.results = << smartSplitArtistTitle(probe.a, probe.b) >>]
    /\ UNCHANGED mainVars

\* versionTokens applied to the title a, and the hard filter of the
\* YouTube->Spotify matcher applied to the video with title a and the search
\* result with name b (spotify.js 231-253)
VersionFlags ==
    /\ probe.dir = "version"
    /\ probe.results = <<>>
    /\ With(VersionYtItem(probe.a), LAMBDA ytItem :
          probe' = [probe EXCEPT !.results =
            << [flags |-> versionTokens(probe.a),
                passes |-> spHardFilter(ytItem, VersionCand(probe.b), TitleCoreOf(ytItem),
                                        deriveArtistGuess(ytItem.title, ytItem.channelTitle),
                                        DEFAULT_DURATION_SLACK_SEC)] >>])
    /\ UNCHANGED mainVars

PureNext ==
    \/ Jaccard
    \/ SplitTitle
    \/ VersionFlags
    \/ DurationFilters

PureSpec == PureInit /\ [][PureNext]_vars

\* ====================================================================
\* Properties
\* ====================================================================
ApplyPc(leg) == IF leg = "sp2yt" THEN "sp2yt_apply" ELSE "yt2sp_apply"

\* the pass whose plan is in `plan` follows a completed non-dry pass of the
\* same leg on the same pair, with no edit by the user in between
SecondOf(leg) == pc = ApplyPc(leg) /\ last[pair].leg = leg

\* C1 -- idempotence of a leg: when a leg runs non-dry on a pair right after a
\* completed non-dry pass of the same leg on that pair (the playlists changed
\* only by that pass's own insertions, the search results fixed), the plan of
\* the second pass has no add entry, whatever the first pass's inserts did.
C1_Idempotent ==
    \A leg \in {"sp2yt", "yt2sp"} :
        (SecondOf(leg) /\ ~dryRun) => Adds(plan) = <<>>

\* C1, a consequence -- the same when every insert call of the first pass
\* succeeded
C1_IdempotentAfterSuccess ==
    \A leg \in {"sp2yt", "yt2sp"} :
        (SecondOf(leg) /\ ~dryRun /\ last[pair].failed = {}) => Adds(plan) = <<>>

\* C2 -- a dry run has no effect: every step of a dry invocation, in any
\* mode, leaves the cache files and both playlists as they are, and the
\* invocation has issued no insert call and no saveCache call.
C2_DryRunNoEffect ==
    [][(dryRun /\ pc \notin Rest) =>
          /\ cacheFile' = cacheFile
          /\ spList' = spList
          /\ ytList' = ytList
          /\ saveCalls' = 0
          /\ insertLog' = <<>>]_vars

\* a dry run in mode both that planned an add in its YT -> SP leg after its
\* SP -> YT leg went over the pair
C2_Witness ==
    /\ dryRun
    /\ mode = "both"
    /\ pc = "yt2sp_apply"
    /\ Adds(plan) # <<>>
    /\ spList[1] # <<>>

\* C3 -- oldest-first application: of two insert calls of one pass whose
\* source items were added at T1 < T2, the call for the T1 item comes first.
C3_OldestFirst ==
    \A i, j \in 1..Len(insertLog) :
        insertLog[i].srcAt < insertLog[j].srcAt => i < j

\* two insert calls of one pass for sources added at different times
C3_Witness ==
    \E i, j \in 1..Len(insertLog) : i < j /\ insertLog[i].srcAt < insertLog[j].srcAt

\* C4 -- both-mode window bump: in mode both the YT -> SP leg inspects, for
\* each pair, the min(|YouTube list|, 10 + K) latest videos, K being the
\* successful inserts of the SP -> YT leg for that same pair.
C4_WindowBump ==
    (mode = "both" /\ pc = "yt2sp_apply") =>
        Len(inspected) = Min2(Len(ytList[pair]), RECENT_YOUTUBE_LIMIT + addedByPair[pair])

\* the key and the value of the map entry a plan entry (or its insert call) writes
KeyOf(leg, e) == IF leg = "sp2yt" THEN e.src ELSE e.dst
ValOf(leg, e) == IF leg = "sp2yt" THEN e.dst ELSE e.src

\* the step that ends the non-dry pass of `leg`: the map-only entries, the
\* baseline and saveCache
EndsPass(leg) == pc = ApplyPc(leg) /\ ~dryRun /\ todo = <<>> /\ pc' # pc

\* the pass ended, an insert call of it having thrown: every planned add was
\* attempted, every map-only entry is in the cache, the mapping of every
\* successful add is in the cache, the mapping of the source item of every
\* failed add (in the YT -> SP leg: the track that maps to the video) is what
\* it was when the cache was loaded, and saveCache is called
C5_AsStated(leg) ==
    LET maps == Maps(plan)
        n == Len(insertLog)
    IN  (EndsPass(leg) /\ \E i \in 1..n : ~insertLog[i].ok) =>
          /\ n = Len(Adds(plan))
          /\ \A i \in 1..Len(maps) : MapGet(cache'.map, KeyOf(leg, maps[i])) = ValOf(leg, maps[i])
          /\ \A i \in 1..n : insertLog[i].ok =>
                MapGet(cache'.map, KeyOf(leg, insertLog[i])) = ValOf(leg, insertLog[i])
          /\ \A i \in 1..n : ~insertLog[i].ok =>
                IF leg = "sp2yt"
                THEN MapGet(cache'.map, insertLog[i].src) = MapGet(loaded.map, insertLog[i].src)
                ELSE reverseMapGet(cache'.map, insertLog[i].src) = reverseMapGet(loaded.map, insertLog[i].src)
          /\ saveCalls' = saveCalls + 1

AddWritesAfter(leg, k, i) ==
    \E j \in (i + 1)..Len(insertLog) : insertLog[j].ok /\ KeyOf(leg, insertLog[j]) = k
MapWritesAfter(leg, k, i) ==
    \E j \in (i + 1)..Len(Maps(plan)) : KeyOf(leg, Maps(plan)[j]) = k

\* the pass ended: every planned add has had its insert call, in application
\* order; each key of map holds the last write of the pass to it (successful
\* adds in application order, then map-only entries in plan order), and a key
\* that only failed adds would have written holds what it held at load
C5_Contained(leg) ==
    LET maps == Maps(plan)
        adds == ApplyOrder(plan)
        n == Len(insertLog)
    IN  EndsPass(leg) =>
          /\ n = Len(adds)
          /\ \A i \in 1..n : insertLog[i].src = adds[i].src /\ insertLog[i].dst = adds[i].dst
          /\ \A i \in 1..Len(maps) :
                ~MapWritesAfter(leg, KeyOf(leg, maps[i]), i) =>
                    MapGet(cache'.map, KeyOf(leg, maps[i])) = ValOf(leg, maps[i])
          /\ \A i \in 1..n :
                (insertLog[i].ok /\ ~AddWritesAfter(leg, KeyOf(leg, insertLog[i]), i)
                                 /\ ~MapWritesAfter(leg, KeyOf(leg, insertLog[i]), 0)) =>
                    MapGet(cache'.map, KeyOf(leg, insertLog[i])) = ValOf(leg, insertLog[i])
          /\ \A i \in 1..n :
                (~insertLog[i].ok /\ ~AddWritesAfter(leg, KeyOf(leg, insertLog[i]), 0)
                                  /\ ~MapWritesAfter(leg, KeyOf(leg, insertLog[i]), 0)) =>
                    MapGet(cache'.map, KeyOf(leg, insertLog[i])) = MapGet(loaded.map, KeyOf(leg, insertLog[i]))
          /\ saveCalls' = saveCalls + 1
          /\ pc' # "failed" => cacheFile'[pair] = cache'

C6_FailedAddRetried ==
    SecondOf("sp2yt") =>
        \A s \in last[pair].failed :
            s \in IdsOf(inspected) =>
                /\ s \in IdsOf(candidates)
                /\ \E i \in 1..Len(plan) : plan[i].src = s

\* C7 -- no double insert: the successful insert calls of one pass have
\* pairwise different destination IDs.
C7_NoDoubleInsert ==
    \A i, j \in 1..Len(insertLog) :
        (i < j /\ insertLog[i].ok /\ insertLog[j].ok) => insertLog[i].dst # insertLog[j].dst

\* the number of items of the list that come before item k when the list is
\* ordered by addedAt, latest first, items of equal addedAt in list order
Before(items, k) ==
    Cardinality({j \in 1..Len(items) :
                    \/ items[j].addedAt > items[k].addedAt
                    \/ items[j].addedAt = items[k].addedAt /\ j < k})

\* the admission rules (i)-(iv) read on the loaded cache and the fetched
\* YouTube list (destSet before the first insert)
Admitted(it) ==
    LET mapped == MapGet(loaded.map, it.id)
    IN  \/ loaded.lastSync = 0 /\ ~(mapped # NoId /\ mapped \in destSet)
        \/ loaded.lastSync # 0 /\ it.addedAt > loaded.lastSync
        \/ it.id \notin loaded.seenTrackIds
        \/ mapped # NoId /\ mapped \notin destSet

ValidlyMapped(it) == MapGet(loaded.map, it.id) # NoId /\ MapGet(loaded.map, it.id) \in destSet

\* C8 -- candidate admission in the SP -> YT leg: an item of the playlist is
\* a candidate iff it is among the 10 items with the latest addedAt and one of
\* (i) no lastSync and no mapping to a video of the list, (ii) addedAt strictly
\* after lastSync, (iii) not in seenTrackIds, (iv) mapped to a video absent
\* from the list holds; a candidate whose mapping is valid has no plan entry.
C8_CandidateAdmission ==
    (pc = "sp2yt_apply" /\ insertLog = <<>>) =>
        /\ \A k \in 1..Len(spItemsAll) :
              spItemsAll[k] \in Range(candidates)
                  <=> (Before(spItemsAll, k) < RECENT_SPOTIFY_LIMIT /\ Admitted(spItemsAll[k]))
        /\ \A k \in 1..Len(candidates) :
              ValidlyMapped(candidates[k]) => \A i \in 1..Len(plan) : plan[i].src # candidates[k].id

\* a pass after the first, with a candidate whose mapping is valid, an item
\* of the window that is no candidate and an item outside the window
C8_Witness ==
    /\ pc = "sp2yt_apply"
    /\ insertLog = <<>>
    /\ loaded.lastSync # 0
    /\ \E k \in 1..Len(candidates) : ValidlyMapped(candidates[k])
    /\ \E k \in 1..Len(inspected) : inspected[k] \notin Range(candidates)
    /\ Len(spItemsAll) > RECENT_SPOTIFY_LIMIT

\* C9 -- single-song reset: the track whose key the user removed from map has
\* a plan entry in the next SP -> YT pass on the pair if it is in the window.
C9_ResetRematches ==
    (pc = "sp2yt_apply" /\ pair = 1 /\ resetPending # NoId /\ resetPending \in IdsOf(inspected)) =>
        \E i \in 1..Len(plan) : plan[i].src = resetPending

\* C10 -- seenTrackIds is monotone: no step shrinks the persisted seenTrackIds
\* of a pair, and when a non-dry invocation has completed, the seenTrackIds of
\* every pair holds the ID of every item of the pair's Spotify playlist.
C10_SeenMonotone ==
    [][/\ \A p \in 1..NPairs : cacheFile[p].seenTrackIds \subseteq cacheFile'[p].seenTrackIds
       /\ (pc' = "done" /\ ~dryRun') =>
              \A p \in 1..NPairs : IdsOf(spList'[p]) \subseteq cacheFile'[p].seenTrackIds]_vars

\* a completed non-dry invocation after which seenTrackIds holds a track that
\* is no longer in the playlist
C10_Witness ==
    /\ pc = "done"
    /\ ~dryRun
    /\ spList[1] # <<>>
    /\ \E t \in cacheFile[1].seenTrackIds : t \notin IdsOf(spList[1])

\* C11 (backfill suppression): after a non-dry pass on a pair has saved its
\* cache, a Spotify playlist item that was in the playlist at that save is
\* never a candidate of a later SP->YT pass on the pair, whether or not it was
\* inside the recent window then, unless the cache maps it to a video that is
\* missing from the YouTube playlist (a stale mapping).  Stated where the
\* candidates of a pass have just been selected.
C11_BackfillSuppressed ==
    (pc = "sp2yt_apply" /\ insertLog = <<>>) =>
        \A i \in 1..Len(candidates) :
            candidates[i] \in baselined[pair] =>
                /\ MapGet(loaded.map, candidates[i].id) # NoId
                /\ MapGet(loaded.map, candidates[i].id) \notin destSet

\* C11 happens: the old track, outside the window when the pass saved, is the
\* last item of a full window after the removal of a newer item; it has no
\* mapping and is not a candidate
C11_Witness ==
    /\ pc = "sp2yt_apply"
    /\ Len(inspected) = RECENT_SPOTIFY_LIMIT
    /\ inspected[RECENT_SPOTIFY_LIMIT] \in baselined[pair]
    /\ inspected[RECENT_SPOTIFY_LIMIT].addedAt = 1
    /\ MapGet(loaded.map, inspected[RECENT_SPOTIFY_LIMIT].id) = NoId
    /\ inspected[RECENT_SPOTIFY_LIMIT] \notin Range(candidates)

\* ---- the matchers on their own (MatcherSpec)
\* the source item of the probe has no usable text: hasUsableTokens is false
\* of its artist and title (a track), of its title and channel (a video)
ProbeUnintelligible ==
    \/ probe.dir = "sp2yt"
       /\ ~hasUsableTokens(primaryOf(SpSource(probe.src)) \o SpSource(probe.src).title)
    \/ probe.dir = "yt2sp"
       /\ ~hasUsableTokens(YtSource(probe.src).title \o YtSource(probe.src).channelTitle)

\* whether the candidate at position j of the probe's search results passes
\* the hard filters of the probe's matcher on day at
ProbePasses(j, at) ==
    IF probe.dir = "sp2yt"
    THEN passesHardFilters(SpSource(probe.src), YtProbeCandidates(probe.pool, at)[j],
                           DEFAULT_DURATION_SLACK_SEC)
    ELSE spHardFilter(YtSource(probe.src), SpProbeCandidates(probe.pool)[j],
                      TitleCoreOf(YtSource(probe.src)),
                      deriveArtistGuess(YtSource(probe.src).title, YtSource(probe.src).channelTitle),
                      DEFAULT_DURATION_SLACK_SEC)

\* the title of the candidate at position j of the probe's search results
ProbeTitle(j) ==
    IF probe.dir = "sp2yt" THEN YtKind(probe.pool[j]).title ELSE SpKind(probe.pool[j]).title

\* C12 (unintelligible-query guard): a match attempt on a source item without
\* usable text makes no search call and returns best = null with the reason
\* unintelligible_query.
C12_UnintelligibleGuard ==
    ProbeUnintelligible =>
        \A i \in 1..Len(probe.results) :
            /\ probe.results[i].searches = 0
            /\ probe.results[i].best = NoId
            /\ probe.results[i].reason = "unintelligible_query"

\* C13 (closed failure taxonomy): every match result with best = null carries
\* one of the reasons no_search_results, no_candidate_passed_filters, no_best,
\* unintelligible_query.
C13_ClosedTaxonomy ==
    \A i \in 1..Len(probe.results) :
        probe.results[i].best = NoId =>
            probe.results[i].reason \in {"no_search_results", "no_candidate_passed_filters",
                                         "no_best", "unintelligible_query"}

\* C14 (escalation 5 -> 10, once): of a search that returned candidates,
\* escalated is false exactly when one of the first 5 candidates passes the
\* hard filters, and best is then one of the passing candidates of the first
\* 5; otherwise escalated is true and best is one of the passing candidates
\* of the first 10, or null with the reason no_candidate_passed_filters when
\* none of the first 10 passes.
C14_Escalation ==
    \A i \in 1..Len(probe.results) :
        With2(probe.results[i],
              {j \in 1..Len(probe.pool) : ProbePasses(j, probe.results[i].at)}, LAMBDA r, P :
            probe.pool # <<>> =>
                /\ r.escalated = (P \cap (1..POOL_FIRST) = {})
                /\ r.inspected = Min2(IF r.escalated THEN POOL_ESCALATED ELSE POOL_FIRST, Len(probe.pool))
                /\ P \cap (1..POOL_FIRST) # {} =>
                      r.reason = "ok" /\ r.best \in {PoolIds[j] : j \in P \cap (1..POOL_FIRST)}
                /\ (P \cap (1..POOL_FIRST) = {} /\ P \cap (1..POOL_ESCALATED) # {}) =>
                      r.reason = "ok" /\ r.best \in {PoolIds[j] : j \in P \cap (1..POOL_ESCALATED)}
                /\ P \cap (1..POOL_ESCALATED) = {} =>
                      r.best = NoId /\ r.reason = "no_candidate_passed_filters")

\* C14 happens: none of the first 5 candidates passes, and the candidate at
\* position 7 is returned after the escalation
C14_Witness ==
    \E i \in 1..Len(probe.results) :
        /\ probe.results[i].escalated
        /\ probe.results[i].best = PoolIds[7]
        /\ \A j \in 1..POOL_FIRST : ~ProbePasses(j, probe.results[i].at)

\* C15 (version-rule asymmetry): a candidate whose title has the word "live"
\* while the title of the source item has not is rejected by the hard filters
\* and is not the best of any attempt, in either matcher.
C15_LiveRejected ==
    \A i \in 1..Len(probe.results), j \in 1..Len(probe.pool) :
        ("live" \in Range(ProbeTitle(j))
         /\ "live" \notin Range(IF probe.dir = "sp2yt" THEN SpSource(probe.src).title
                                ELSE YtSource(probe.src).title)) =>
            /\ ~ProbePasses(j, probe.results[i].at)
            /\ probe.results[i].best # PoolIds[j]

\* C16 (matcher determinism): two attempts with the same source item and the
\* same search results return the same best and the same score, whatever the
\* days of the attempts.
C16_Deterministic ==
    \A i, k \in 1..Len(probe.results) :
        /\ probe.results[i].best = probe.results[k].best
        /\ probe.results[i].score = probe.results[k].score

\* the positions of the final pool of a result of the probe: the passing
\* candidates of the first 5, or of the first 10 when none of the first 5 passes
ProbeFinalPool(at) ==
    With({j \in 1..Min2(Len(probe.pool), POOL_FIRST) : ProbePasses(j, at)}, LAMBDA P5 :
        IF P5 # {} THEN P5
        ELSE {j \in 1..Min2(Len(probe.pool), POOL_ESCALATED) : ProbePasses(j, at)})

\* duration closeness + popularity/200 of the Spotify candidate at position j
ProbeTie(j) ==
    spTie(YtSource(probe.src), SpProbeCandidates(probe.pool)[j], DEFAULT_DURATION_SLACK_SEC)

\* the weighted score of the Spotify candidate at position j
ProbeSpScore(j) ==
    spScore(YtSource(probe.src), SpProbeCandidates(probe.pool)[j], TitleCoreOf(YtSource(probe.src)),
            deriveArtistGuess(YtSource(probe.src).title, YtSource(probe.src).channelTitle),
            DEFAULT_DURATION_SLACK_SEC)

ProbeWithArtists(a) ==
    [j \in 1..Len(probe.pool) |-> [SpProbeCandidates(probe.pool)[j] EXCEPT !.artists = a]]

EntriesOf(id) == SelectSeq(plan, LAMBDA e : e.src = id)

\* the plan holds an entry for the source item id, and each of its entries
\* for id is map-only to dst (a playlist may hold an item twice)
MapOnlyTo(id, dst) ==
    /\ EntriesOf(id) # <<>>
    /\ \A k \in 1..Len(EntriesOf(id)) :
          /\ EntriesOf(id)[k].action = "map-only"
          /\ EntriesOf(id)[k].dst = dst
          /\ EntriesOf(id)[k].reason = "soft-dup-in-playlist"

\* C17 (soft-duplicate short-circuit): where a plan has just been built, every
\* candidate without a valid mapping (none, or one to an item missing from
\* the destination list) for which the soft-duplicate detector finds an item
\* of the full destination list has a plan entry map-only to that item and
\* no other (no search result, no add); and when a non-dry pass has saved, the
\* cache maps the track to the video of every such entry (of the last such
\* entry of a track).
C17_SoftDupeFirst ==
    /\ (pc = "sp2yt_apply" /\ insertLog = <<>>) =>
          \A i \in 1..Len(candidates) :
              With2(MapGet(loaded.map, candidates[i].id),
                    findSoftDupeInPlaylist(TrackInfo(candidates[i].id), ytList[pair]),
                    LAMBDA mapped, hit :
                  (~(mapped # NoId /\ mapped \in destSet) /\ hit # NoId) =>
                      MapOnlyTo(candidates[i].id, hit))
    /\ (pc = "yt2sp_apply" /\ insertLog = <<>>) =>
          \A i \in 1..Len(inspected) :
              With2(reverseMapGet(loaded.map, inspected[i].id),
                    findSoftDupeInSpotify(YtCandidate(inspected[i].id), spList[pair]),
                    LAMBDA mappedSp, hit :
                  (~(mappedSp # NoId /\ mappedSp \in destSet) /\ hit # NoId) =>
                      MapOnlyTo(inspected[i].id, hit))
    /\ (pc = "sp2yt" /\ pair > 1 /\ ~dryRun) =>
          \A i \in 1..Len(plan) :
              plan[i].reason = "soft-dup-in-playlist" =>
                  MapGet(cacheFile[pair - 1].map, plan[i].src) = plan[i].dst
    /\ (pc = "yt2sp" /\ pair > 1 /\ ~dryRun) =>
          \A i \in 1..Len(plan) :
              (/\ plan[i].reason = "soft-dup-in-playlist"
               /\ \A j \in (i + 1)..Len(plan) :
                     ~(plan[j].action = "map-only" /\ plan[j].dst = plan[i].dst)) =>
                  MapGet(cacheFile[pair - 1].map, plan[i].dst) = plan[i].src

\* C18 (cache map orientation): every key of map, in the cache files and in
\* the cache in memory, is the ID of a Spotify track and every value the ID
\* of a YouTube video.
C18_MapOrientation ==
    /\ \A p \in 1..NPairs : \A i \in 1..Len(cacheFile[p].map) :
          cacheFile[p].map[i][1] \in AllTracks /\ cacheFile[p].map[i][2] \in AllVideos
    /\ \A i \in 1..Len(cache.map) :
          cache.map[i][1] \in AllTracks /\ cache.map[i][2] \in AllVideos

\* C18 happens: a non-dry YT->SP pass on pair 1 has saved a cache with the
\* entry of an add and the entry of a map-only of its plan
C18_Witness ==
    /\ pc = "yt2sp"
    /\ pair = 2
    /\ ~dryRun
    /\ \E i, j \in 1..Len(plan) :
          /\ plan[i].action = "add"
          /\ plan[j].action = "map-only"
          /\ MapGet(cacheFile[1].map, plan[i].dst) = plan[i].src
          /\ MapGet(cacheFile[1].map, plan[j].dst) = plan[j].src

\* --------------------------------------------------------------------
\* C21  Jaccard laws: jaccardTitle(a, b) = jaccardTitle(b, a),
\* jaccardTitle(a, a) = 1, the value lies in [0, 1] with a non-zero
\* denominator, and it is 1 when both token sets are empty.
\* --------------------------------------------------------------------
C21_JaccardLaws ==
    (probe.dir = "jaccard" /\ probe.results # <<>>) =>
        With(probe.results[1], LAMBDA r :
            /\ r.ab[1] * r.ba[2] = r.ba[1] * r.ab[2]
            /\ r.aa[1] = r.aa[2]
            /\ r.bb[1] = r.bb[2]
            /\ \A j \in {r.ab, r.ba, r.aa, r.bb} : j[2] > 0 /\ 0 <= j[1] /\ j[1] <= j[2]
            /\ (TokenSet(probe.a) = {} /\ TokenSet(probe.b) = {}) => r.ab[1] = r.ab[2])

\* two titles that share one token and differ in the others, one of them
\* holding more tokens than the other
C21_Witness ==
    /\ probe.dir = "jaccard"
    /\ probe.results # <<>>
    /\ Cardinality(TokenSet(probe.a)) = 1
    /\ Cardinality(TokenSet(probe.b)) = 3
    /\ probe.results[1].ab = <<1, 3>>

\* --------------------------------------------------------------------
\* C22  A throw of saveCache at the end of a non-dry pass is fatal and loud:
\* the invocation has ended with the error printed and exit code 1,
\* nothing was printed after the error, and neither "Cache updated" of
\* that pass nor "Done." was printed.
\* --------------------------------------------------------------------
C22_PersistFailureFatal ==
    \A i \in 1..Len(journal) :
        (journal[i].ev = "saveCache" /\ ~journal[i].ok) =>
            /\ pc = "failed"
            /\ Len(journal) = i + 1
            /\ journal[i + 1].ev = "error"
            /\ \A j \in 1..Len(journal) :
                  /\ journal[j].ev # "Done."
                  /\ journal[j].ev = "Cache updated" =>
                        (journal[j].leg # journal[i].leg \/ journal[j].pair # journal[i].pair)

\* saveCache threw in the second pass of the YT->SP leg of a run of both
\* legs, after three passes that saved
C22_Witness ==
    /\ pc = "failed"
    /\ mode = "both"
    /\ Len(journal) = 8
    /\ journal[7] = Line("saveCache", "yt2sp", 2, FALSE)
    /\ journal[8].ev = "error"

\* --------------------------------------------------------------------
\* C23  Query construction of the YouTube->Spotify matcher: a query other
\* than titleCore alone is issued exactly when a trusted artist guess
\* exists, and it is then "artist titleCore"; titleCore alone is always
\* the last query; the candidates handed to pool slicing are the results
\* of the queries in query order, each ID once at its first occurrence.
\* --------------------------------------------------------------------
C23_QueryConstruction ==
    probe.dir = "yt2sp" =>
        \A n \in 1..Len(probe.results) :
            With3(probe.results[n], TitleCoreOf(YtSource(probe.src)),
                  deriveArtistGuess(YtSource(probe.src).title, YtSource(probe.src).channelTitle),
                  LAMBDA r, titleCore, g :
                LET flat == Flatten(r.hits)
                    first(x) == IndexFrom(flat, x, 1)
                IN  /\ (Len(r.queries) > 1) <=> (g.trusted /\ g.artistGuess # <<>>)
                    /\ Len(r.queries) > 1 => r.queries = << g.artistGuess \o titleCore, titleCore >>
                    /\ r.queries[Len(r.queries)] = titleCore
                    /\ Range(r.all) = Range(flat)
                    /\ \A a, b \in 1..Len(r.all) : a < b => first(r.all[a]) < first(r.all[b]))

\* the weighted score of the candidate at position j of the probe's search
\* results in an attempt on day at
ProbeScore(j, at) ==
    IF probe.dir = "sp2yt"
    THEN scoreCandidate(SpSource(probe.src), YtProbeCandidates(probe.pool, at)[j],
                        DEFAULT_DURATION_SLACK_SEC)
    ELSE ProbeSpScore(j)

\* whether the exact-match override of the YouTube->Spotify matcher fires
ProbeOverride(at) ==
    /\ probe.dir = "yt2sp"
    /\ \E j \in ProbeFinalPool(at) :
          /\ isExactTitleMatch(TitleCoreOf(YtSource(probe.src)), ProbeTitle(j))
          /\ ~isMusicVideoName(ProbeTitle(j))

\* --------------------------------------------------------------------
\* C24  Matcher soundness and selection: a best that is not null passed the
\* hard filters of its direction, is one of the first 10 candidates, lies
\* in the considered pool (the first 5, or the first 10 when escalated)
\* and, unless the exact-match override of the YouTube->Spotify matcher
\* fires, no passing candidate of that pool has a greater score and none
\* before it has an equal score.
\* --------------------------------------------------------------------
C24_Selection ==
    \A i \in 1..Len(probe.results) :
        With2(probe.results[i], ProbeFinalPool(probe.results[i].at), LAMBDA r, F :
            r.best # NoId =>
                \E j \in 1..Len(probe.pool) :
                    /\ r.best = PoolIds[j]
                    /\ ProbePasses(j, r.at)
                    /\ j <= POOL_ESCALATED
                    /\ j <= (IF r.escalated THEN POOL_ESCALATED ELSE POOL_FIRST)
                    /\ j \in F
                    /\ ~ProbeOverride(r.at) =>
                          /\ \A k \in F : ProbeScore(k, r.at) <= ProbeScore(j, r.at)
                          /\ \A k \in F : k < j => ProbeScore(k, r.at) < ProbeScore(j, r.at))

\* C24 happens: after an escalation the best is the first of two passing
\* candidates with the same score, ahead of a passing candidate with a
\* smaller score, and no override fired
C24_Witness ==
    \E i \in 1..Len(probe.results), j, k, l \in 1..Len(probe.pool) :
        /\ probe.results[i].best = PoolIds[j]
        /\ probe.results[i].escalated
        /\ ~ProbeOverride(probe.results[i].at)
        /\ {j, k, l} \subseteq ProbeFinalPool(probe.results[i].at)
        /\ l < j /\ j < k
        /\ ProbeScore(k, probe.results[i].at) = ProbeScore(j, probe.results[i].at)
        /\ ProbeScore(l, probe.results[i].at) < ProbeScore(j, probe.results[i].at)

\* --------------------------------------------------------------------
\* C25  Duration hard filter boundary: in both matchers a candidate passes
\* the duration test exactly when both durations are known and they differ
\* by at most slackSec * 1000 ms, a difference of exactly the slack
\* included.
\* --------------------------------------------------------------------
C25_DurationBoundary ==
    (probe.dir = "duration" /\ probe.results # <<>>) =>
        LET within == /\ probe.a # 0
                      /\ probe.b # 0
                      /\ Abs(probe.a - probe.b) <= probe.slackSec * 1000
        IN  /\ probe.results[1].yt2sp = within
            /\ probe.results[1].sp2yt = within

\* whether the text s holds one of the words ws as a whole word
HasWord(s, ws) == \E i \in 1..Len(s) : s[i] \in ws

\* --------------------------------------------------------------------
\* C26  Orientation rule chain of smartSplitArtistTitle: for a title with a
\* dash the artist side is decided by the first rule that discriminates:
\* (1) exactly one side shares a token with the channel-derived artist,
\* (2) exactly one side carries an artist-list marker (&, feat, ft, with,
\* x or a comma), (3) the side with strictly fewer tokens, (4) the left.
\* --------------------------------------------------------------------
C26_OrientationChain ==
    (probe.dir = "split" /\ probe.results # <<>>) =>
        With3(SubSeq(probe.a, 1, IndexFrom(probe.a, "-", 1) - 1),
              SubSeq(probe.a, IndexFrom(probe.a, "-", 1) + 1, Len(probe.a)),
              TokenSet(extractArtistFromChannel(probe.b)), LAMBDA left, right, chanTokens :
            LET markers == {"&", "feat", "ft", "with", "x", ","}
                overlapLeft == chanTokens \cap TokenSet(left) # {}
                overlapRight == chanTokens \cap TokenSet(right) # {}
                leftIsArtist ==
                    IF overlapLeft # overlapRight THEN overlapLeft
                    ELSE IF HasWord(left, markers) # HasWord(right, markers) THEN HasWord(left, markers)
                    ELSE Cardinality(TokenSet(left)) <= Cardinality(TokenSet(right))
            IN  /\ probe.results[1].artistSide = (IF leftIsArtist THEN left ELSE right)
                /\ probe.results[1].titleCore = (IF leftIsArtist THEN right ELSE left)
                /\ probe.results[1].orientation = (IF leftIsArtist THEN "left-artist" ELSE "right-artist"))

\* --------------------------------------------------------------------
\* C27  Version flags: versionTokens(title) sets each of the flags live,
\* remix, acoustic, lyric and remaster exactly when the marker word occurs
\* in the title as a whole word ("lyrics" for lyric, "remastered" for
\* remaster), and a YouTube title carrying a marker rejects every Spotify
\* candidate whose name lacks it.
\* --------------------------------------------------------------------
C27_VersionFlags ==
    (probe.dir = "version" /\ probe.results # <<>>) =>
        LET marks == [hasLive |-> {"live"}, hasRemix |-> {"remix"}, hasAcoustic |-> {"acoustic"},
                      hasLyric |-> {"lyric", "lyrics"}, hasRemaster |-> {"remaster", "remastered"}]
        IN  /\ probe.results[1].flags = [f \in DOMAIN marks |-> HasWord(probe.a, marks[f])]
            /\ (\E f \in DOMAIN marks : HasWord(probe.a, marks[f]) /\ ~HasWord(probe.b, marks[f]))
                  => ~probe.results[1].passes

\* --------------------------------------------------------------------
\* C28  No lost Spotify addition: once a non-dry SP->YT pass on the pair has
\* saved, a track the user added after the last SP->YT pass on the pair
\* is a candidate of the next SP->YT pass in whose window of the
\* RECENT_SPOTIFY_LIMIT most recent items it lies, whatever YT->SP runs were
\* made in between.
\* --------------------------------------------------------------------
C28_NoLostAddition ==
    [][(pc = "sp2yt" /\ pc' = "sp2yt_apply" /\ userAdded[pair].ran) =>
          \A k \in 1..Len(inspected') :
              inspected'[k] \in userAdded[pair].entries =>
                  \E c \in 1..Len(candidates') : candidates'[c] = inspected'[k]]_vars

\* --------------------------------------------------------------------
\* C29  Cache fixpoint: when a leg runs non-dry on a pair right after a
\* completed non-dry pass of the same leg on that pair whose inserts all
\* succeeded, with no edit by the user in between, the map it saves is the
\* map the first pass wrote.
\* --------------------------------------------------------------------
C29_CacheFixpoint ==
    [][\A leg \in {"sp2yt", "yt2sp"} :
          (SecondOf(leg) /\ ~dryRun /\ last[pair].failed = {} /\ pc' = leg) =>
              Range(cacheFile'[pair].map) = Range(cacheFile[pair].map)]_vars

\* the plan entries of the running pass whose source is id
PlanFor(id) == {k \in 1..Len(plan) : plan[k].src = id}

\* --------------------------------------------------------------------
\* C30  No echo between legs: in a non-dry run of both legs, a video the
\* SP->YT leg inserted is neither searched nor planned as add by the YT->SP
\* leg that follows; and a track a YT->SP leg inserted for a video is not
\* planned as add by a later SP->YT pass while the video is in the YouTube
\* playlist (the user having removed or reset neither of the two).
\* --------------------------------------------------------------------
C30_NoEcho ==
    /\ (pc = "yt2sp_apply" /\ mode = "both" /\ ~dryRun) =>
          \A r \in inserted :
              (r.leg = "sp2yt" /\ r.pair = pair) =>
                  \A k \in PlanFor(r.dst) :
                      plan[k].action = "map-only" /\ plan[k].reason = "soft-dup-in-playlist"
    /\ pc = "sp2yt_apply" =>
          \A r \in inserted :
              (r.leg = "yt2sp" /\ r.pair = pair /\ r.src \in IdsOf(ytList[pair])) =>
                  \A k \in PlanFor(r.dst) : plan[k].action # "add"

====
